---- MODULE Spec2Model ----
(***************************************************************************)
(* A model of the magnetgeo data model: the tag-driven decode               *)
(* (deserialize.py), the entity constructors with their validation, the     *)
(* to_dict / from_dict pairs, and the lazily resolved reference fields of    *)
(* Helix, Bitter and Supra.                                                  *)
(*                                                                           *)
(* Python values are tagged records, one field name per tag so that two      *)
(* values of different Python types are always comparable.  An instance is   *)
(* [t |-> "obj", cls, a] where a is the instance __dict__ (attribute name    *)
(* to value); an attribute that has not been assigned is not in DOMAIN a.    *)
(* A call that may raise returns Ok(v) or Raise(e), e the exception class.   *)
(* Numbers are integers (lengths in scaled units); Python compares int and   *)
(* float by value, so float(x) of an integer x is that integer.              *)
(***************************************************************************)
EXTENDS Integers, Sequences, FiniteSets, TLC

VARIABLES
    obj,      \* the magnet component under study, or NoObj
    fs,       \* the file system: file name -> content
    reads,    \* file name -> number of times the file has been opened and read
    resolves, \* reference field -> number of resolutions attempted on obj
    held,     \* the list the caller holds from to_dict / get_bounds
    writes,   \* number of writes the caller has made through held
    last,     \* the last call: operation, arguments, outcome
    classes,  \* deserialize.classes: discriminant value -> class name
    dec       \* the last unserialize_object call: mapping before/after, result

vars == <<obj, fs, reads, resolves, held, writes, last, classes, dec>>

-----------------------------------------------------------------------------
(* Python values *)

None == [t |-> "None"]
Str(s) == [t |-> "str", s |-> s]
Num(n) == [t |-> "num", n |-> n]
Bool(b) == [t |-> "bool", b |-> b]
List(l) == [t |-> "list", l |-> l]
Dict(m) == [t |-> "dict", m |-> m]
Inst(c, a) == [t |-> "obj", cls |-> c, a |-> a]

Ok(v) == [ok |-> v]
Raise(e) == [exc |-> e]
IsRaise(x) == "exc" \in DOMAIN x
\* run k on the value of res unless res is a raised exception
Bind(res, k(_)) == IF IsRaise(res) THEN res ELSE k(res.ok)
\* `try: x = ... except Exception: x = None`
OkOrNone(res) == IF IsRaise(res) THEN None ELSE res.ok

\* bool(v)
Truthy(v) ==
    CASE v.t = "None" -> FALSE
      [] v.t = "str" -> v.s # ""
      [] v.t = "num" -> v.n # 0
      [] v.t = "bool" -> v.b
      [] v.t = "list" -> Len(v.l) > 0
      [] v.t = "dict" -> DOMAIN v.m # {}
      [] OTHER -> TRUE

\* isinstance(v, (int, float)); bool is a subclass of int
IsNum(v) == v.t \in {"num", "bool"}
NumVal(v) == IF v.t = "bool" THEN (IF v.b THEN 1 ELSE 0) ELSE v.n

\* dict.get(k, dflt), dict.pop(k), d[k] = v
Get(m, k, dflt) == IF k \in DOMAIN m THEN m[k] ELSE dflt
Pop(m, k) == [x \in DOMAIN m \ {k} |-> m[x]]
Put(m, k, v) == (k :> v) @@ m

HasAttr(o, k) == k \in DOMAIN o.a
SetAttr(o, k, v) == [o EXCEPT !.a = (k :> v) @@ @]

\* the first outcome that is not "ok"
First2(a, b) == IF a # "ok" THEN a ELSE b

-----------------------------------------------------------------------------
(* utils/validation.py: each check returns "ok" or the exception it raises *)

validate_positive(v) ==
    IF ~IsNum(v) THEN "TypeError"
    ELSE IF NumVal(v) <= 0 THEN "ValueError" ELSE "ok"

validate_non_negative(v) ==
    IF ~IsNum(v) THEN "TypeError"
    ELSE IF NumVal(v) < 0 THEN "ValueError" ELSE "ok"

validate_angle(v, min_deg, max_deg) ==
    IF ~IsNum(v) THEN "TypeError"
    ELSE IF ~(min_deg <= NumVal(v) /\ NumVal(v) <= max_deg) THEN "ValueError"
    ELSE "ok"

validate_bounds_eq(r, z) ==
    IF r.t # "list" \/ z.t # "list" THEN "TypeError"
    ELSE IF Len(r.l) # 2 \/ Len(z.l) # 2 THEN "ValueError"
    ELSE IF \E i \in 1..2 : ~IsNum(r.l[i]) THEN "TypeError"
    ELSE IF \E i \in 1..2 : ~IsNum(z.l[i]) THEN "TypeError"
    ELSE IF NumVal(r.l[1]) > NumVal(r.l[2]) THEN "ValueError"
    ELSE IF NumVal(r.l[1]) < 0 THEN "ValueError"
    ELSE IF NumVal(z.l[1]) > NumVal(z.l[2]) THEN "ValueError"
    ELSE "ok"

validate_bounds(r, z) ==
    IF r.t # "list" \/ z.t # "list" THEN "TypeError"
    ELSE IF Len(r.l) # 2 \/ Len(z.l) # 2 THEN "ValueError"
    ELSE IF \E i \in 1..2 : ~IsNum(r.l[i]) THEN "TypeError"
    ELSE IF \E i \in 1..2 : ~IsNum(z.l[i]) THEN "TypeError"
    ELSE IF NumVal(r.l[1]) >= NumVal(r.l[2]) THEN "ValueError"
    ELSE IF NumVal(r.l[1]) < 0 THEN "ValueError"
    ELSE IF NumVal(z.l[1]) >= NumVal(z.l[2]) THEN "ValueError"
    ELSE "ok"

validate_enum_value(v, values) ==
    IF v.t # "str" THEN "TypeError"
    ELSE IF v.s \notin values THEN "ValueError" ELSE "ok"

\* the names used here are never blank after strip() unless empty
validate_string_not_empty(v) ==
    IF v.t # "str" THEN "TypeError"
    ELSE IF v.s = "" THEN "ValueError" ELSE "ok"

\* utils/enums.py
Side == {"HP", "BP"}
RadialSide == {"rint", "rext"}
GrooveType == {"rint", "rext"}
ShapePosition == {"ABOVE", "BELOW", "ALTERNATE"}
DetailLevel == {"None", "dblpancake", "pancake", "tape"}

-----------------------------------------------------------------------------
(* Support components: validate().  A validate that reads an attribute the  *)
(* instance does not have yet raises AttributeError.  During construction    *)
(* an instance has either only `name` (inside the base constructor) or all   *)
(* its attributes, so the first missing attribute is the first one read.     *)

Missing(o, ks) == ~(ks \subseteq DOMAIN o.a)

\* every element is a number and satisfies lo <= x <= hi
SeqOutcome(l, lo, hi) ==
    IF \E i \in 1..Len(l) : ~IsNum(l[i]) THEN "TypeError"
    ELSE IF \E i \in 1..Len(l) : NumVal(l[i]) < lo \/ NumVal(l[i]) > hi
         THEN "ValueError" ELSE "ok"

\* every element is a number and satisfies lo <= x
SeqMinOutcome(l, lo) ==
    IF \E i \in 1..Len(l) : ~IsNum(l[i]) THEN "TypeError"
    ELSE IF \E i \in 1..Len(l) : NumVal(l[i]) < lo THEN "ValueError" ELSE "ok"

SupportComponentBase_validate(o) ==
    IF HasAttr(o, "name") /\ o.a.name.t # "str" THEN "TypeError" ELSE "ok"

Groove_validate(o) ==
    LET b == SupportComponentBase_validate(o) IN
    IF b # "ok" THEN b
    ELSE IF Missing(o, {"gtype", "n", "eps"}) THEN "AttributeError"
    ELSE LET g == IF o.a.gtype # None
                  THEN validate_enum_value(o.a.gtype, GrooveType) ELSE "ok" IN
    IF g # "ok" THEN g
    ELSE IF ~IsNum(o.a.n) THEN "TypeError"
    ELSE IF NumVal(o.a.n) < 0 THEN "ValueError"
    ELSE validate_non_negative(o.a.eps)

Chamfer_validate(o) ==
    LET b == SupportComponentBase_validate(o) IN
    IF b # "ok" THEN b
    ELSE IF Missing(o, {"l", "alpha", "side", "rside"}) THEN "AttributeError"
    ELSE First2(validate_positive(o.a.l),
         First2(validate_angle(o.a.alpha, 0, 89),
         First2(validate_enum_value(o.a.side, Side),
                validate_enum_value(o.a.rside, RadialSide))))

ModelAxi_validate(o) ==
    LET b == SupportComponentBase_validate(o) IN
    IF b # "ok" THEN b
    ELSE IF Missing(o, {"h", "turns", "pitch"}) THEN "AttributeError"
    ELSE LET h == validate_non_negative(o.a.h) IN
    IF h # "ok" THEN h
    ELSE IF o.a.turns.t # "list" \/ o.a.pitch.t # "list" THEN "TypeError"
    ELSE IF Len(o.a.turns.l) # Len(o.a.pitch.l) THEN "ValueError"
    ELSE First2(SeqMinOutcome(o.a.turns.l, 0),
                SeqMinOutcome(o.a.pitch.l, 0))

Model3D_validate(o) ==
    LET b == SupportComponentBase_validate(o) IN
    IF b # "ok" THEN b
    ELSE IF Missing(o, {"cad", "with_shapes", "with_channels"})
         THEN "AttributeError"
    ELSE LET c == validate_string_not_empty(o.a.cad) IN
    IF c # "ok" THEN c
    ELSE IF o.a.with_shapes.t # "bool" THEN "TypeError"
    ELSE IF o.a.with_channels.t # "bool" THEN "TypeError"
    ELSE "ok"

Shape_validate(o) ==
    LET b == SupportComponentBase_validate(o) IN
    IF b # "ok" THEN b
    ELSE IF Missing(o, {"profile", "length", "angle", "onturns", "position"})
         THEN "AttributeError"
    ELSE IF o.a.profile.t # "str" THEN "TypeError"
    ELSE IF o.a.length.t # "list" THEN "TypeError"
    ELSE IF o.a.angle.t # "list" THEN "TypeError"
    ELSE IF o.a.onturns.t # "list" THEN "TypeError"
    ELSE First2(SeqOutcome(o.a.length.l, 0, 360),
         First2(SeqOutcome(o.a.angle.l, 0, 360),
         First2(SeqMinOutcome(o.a.onturns.l, 1),
                validate_enum_value(o.a.position, ShapePosition))))

CoolingSlit_validate(o) ==
    LET b == SupportComponentBase_validate(o) IN
    IF b # "ok" THEN b
    ELSE IF Missing(o, {"r", "angle", "n", "dh", "sh"}) THEN "AttributeError"
    ELSE First2(validate_positive(o.a.r),
         First2(validate_angle(o.a.angle, 0, 360),
         First2(IF ~IsNum(o.a.n) THEN "TypeError"
                ELSE IF NumVal(o.a.n) <= 0 THEN "ValueError" ELSE "ok",
         First2(validate_positive(o.a.dh), validate_positive(o.a.sh)))))

Tierod_validate(o) ==
    LET b == SupportComponentBase_validate(o) IN
    IF b # "ok" THEN b
    ELSE IF Missing(o, {"r", "n", "dh", "sh"}) THEN "AttributeError"
    ELSE First2(validate_positive(o.a.r),
         First2(IF ~IsNum(o.a.n) THEN "TypeError"
                ELSE IF NumVal(o.a.n) <= 0 THEN "ValueError" ELSE "ok",
         First2(validate_positive(o.a.dh), validate_positive(o.a.sh))))

\* components/support/shape2d.py; a point is a list of two numbers
Shape2D_validate(o) ==
    LET b == SupportComponentBase_validate(o) IN
    IF b # "ok" THEN b
    ELSE IF Missing(o, {"pts"}) THEN "AttributeError"
    ELSE IF o.a.pts.t # "list" THEN "TypeError"
    ELSE IF Len(o.a.pts.l) < 3 THEN "ValueError"
    ELSE IF \E i \in 1..Len(o.a.pts.l) :
              \/ o.a.pts.l[i].t # "list"
              \/ Len(o.a.pts.l[i].l) # 2
              \/ \E j \in 1..2 : ~IsNum(o.a.pts.l[i].l[j])
         THEN "ValueError"
    ELSE "ok"

-----------------------------------------------------------------------------
(* HTS structure: validate().  These classes derive from                   *)
(* SupportComponentBase as well (BASE_AVAILABLE).                           *)

IsInst(v, c) == v.t = "obj" /\ v.cls = c

Tape_validate(o) ==
    LET b == SupportComponentBase_validate(o) IN
    IF b # "ok" THEN b
    ELSE IF Missing(o, {"w", "h", "e"}) THEN "AttributeError"
    ELSE First2(validate_non_negative(o.a.w),
         First2(validate_non_negative(o.a.h), validate_non_negative(o.a.e)))

Isolation_validate(o) ==
    LET b == SupportComponentBase_validate(o) IN
    IF b # "ok" THEN b
    ELSE IF Missing(o, {"r0", "w", "h"}) THEN "AttributeError"
    ELSE LET r == validate_non_negative(o.a.r0) IN
    IF r # "ok" THEN r
    ELSE IF o.a.w.t # "list" THEN "TypeError"
    ELSE LET w == SeqMinOutcome(o.a.w.l, 0) IN
    IF w # "ok" THEN w
    ELSE IF o.a.h.t # "list" THEN "TypeError"
    ELSE SeqMinOutcome(o.a.h.l, 0)

\* `if self.x: self.x.validate()` for a member expected to be of class c
Member_validate(v, c, validated) ==
    IF ~Truthy(v) THEN "ok"
    ELSE IF ~IsInst(v, c) THEN "AttributeError"
    ELSE validated

Pancake_validate(o) ==
    LET b == SupportComponentBase_validate(o) IN
    IF b # "ok" THEN b
    ELSE IF Missing(o, {"r0", "mandrin", "n", "tape"}) THEN "AttributeError"
    ELSE LET c == First2(validate_non_negative(o.a.r0),
                         validate_non_negative(o.a.mandrin)) IN
    IF c # "ok" THEN c
    ELSE IF NumVal(o.a.n) < 0 THEN "ValueError"
    ELSE IF NumVal(o.a.mandrin) > NumVal(o.a.r0) THEN "ValueError"
    ELSE Member_validate(o.a.tape, "Tape", Tape_validate(o.a.tape))

DblPancake_validate(o) ==
    LET b == SupportComponentBase_validate(o) IN
    IF b # "ok" THEN b
    ELSE IF Missing(o, {"pancake", "isolation"}) THEN "AttributeError"
    ELSE First2(Member_validate(o.a.pancake, "Pancake",
                                Pancake_validate(o.a.pancake)),
                Member_validate(o.a.isolation, "Isolation",
                                Isolation_validate(o.a.isolation)))

\* the members' failures are re-raised as ValueError with the member's index
HTSinsert_validate(o) ==
    LET b == SupportComponentBase_validate(o) IN
    IF b # "ok" THEN b
    ELSE LET s == validate_string_not_empty(o.a.name) IN
    IF s # "ok" THEN s
    ELSE IF Missing(o, {"h", "r0", "r1", "n", "dblpancakes", "isolations"})
         THEN "AttributeError"
    ELSE LET c == First2(validate_non_negative(o.a.h),
                  First2(validate_non_negative(o.a.r0),
                         validate_non_negative(o.a.r1))) IN
    IF c # "ok" THEN c
    ELSE IF NumVal(o.a.r0) >= NumVal(o.a.r1) THEN "ValueError"
    ELSE IF NumVal(o.a.n) < 0 THEN "ValueError"
    ELSE IF o.a.dblpancakes.t # "list" \/ o.a.isolations.t # "list"
         THEN "TypeError"
    ELSE IF \E i \in 1..Len(o.a.dblpancakes.l) :
              Member_validate(o.a.dblpancakes.l[i], "DblPancake",
                  DblPancake_validate(o.a.dblpancakes.l[i])) # "ok"
         THEN "ValueError"
    ELSE IF \E i \in 1..Len(o.a.isolations.l) :
              Member_validate(o.a.isolations.l[i], "Isolation",
                  Isolation_validate(o.a.isolations.l[i])) # "ok"
         THEN "ValueError"
    ELSE "ok"

\* Magnet components.  MagnetComponentBase.validate only calls
\* SerializableBase.validate, which checks nothing.
MagnetComponentBase_validate(o) == "ok"

Helix_validate(o) ==
    LET b == MagnetComponentBase_validate(o) IN
    IF b # "ok" THEN b
    ELSE IF ~HasAttr(o, "cutwidth") THEN "ok"
    ELSE IF ~IsNum(o.a.cutwidth) THEN "TypeError"
    ELSE IF NumVal(o.a.cutwidth) <= 0 THEN "ValueError"
    ELSE "ok"

Bitter_validate(o) ==
    LET b == MagnetComponentBase_validate(o) IN
    IF b # "ok" THEN b
    ELSE IF ~(HasAttr(o, "innerbore") /\ HasAttr(o, "outerbore")) THEN "ok"
    ELSE IF ~IsNum(o.a.innerbore) \/ ~IsNum(o.a.outerbore) THEN "TypeError"
    ELSE IF NumVal(o.a.innerbore) >= NumVal(o.a.outerbore) THEN "ValueError"
    ELSE "ok"

Supra_validate(o) ==
    LET b == MagnetComponentBase_validate(o) IN
    IF b # "ok" THEN b
    ELSE IF HasAttr(o, "n") /\ ~IsNum(o.a.n) THEN "TypeError"
    ELSE IF HasAttr(o, "n") /\ NumVal(o.a.n) < 0 THEN "ValueError"
    ELSE IF HasAttr(o, "detail")
            /\ ~(o.a.detail.t = "str" /\ o.a.detail.s \in DetailLevel)
         THEN "ValueError"
    ELSE IF HasAttr(o, "struct") /\ Truthy(o.a.struct) /\ o.a.struct.t # "str"
         THEN "ValueError"
    ELSE "ok"

\* self.validate(): dispatch on the class of the instance
Validate(o) ==
    CASE o.cls = "Groove" -> Groove_validate(o)
      [] o.cls = "Chamfer" -> Chamfer_validate(o)
      [] o.cls = "ModelAxi" -> ModelAxi_validate(o)
      [] o.cls = "Model3D" -> Model3D_validate(o)
      [] o.cls = "Shape" -> Shape_validate(o)
      [] o.cls = "CoolingSlit" -> CoolingSlit_validate(o)
      [] o.cls = "Tierod" -> Tierod_validate(o)
      [] o.cls = "Shape2D" -> Shape2D_validate(o)
      [] o.cls = "Tape" -> Tape_validate(o)
      [] o.cls = "Isolation" -> Isolation_validate(o)
      [] o.cls = "Pancake" -> Pancake_validate(o)
      [] o.cls = "DblPancake" -> DblPancake_validate(o)
      [] o.cls = "HTSinsert" -> HTSinsert_validate(o)
      [] o.cls = "Helix" -> Helix_validate(o)
      [] o.cls = "Bitter" -> Bitter_validate(o)
      [] o.cls = "Supra" -> Supra_validate(o)
      [] OTHER -> SupportComponentBase_validate(o)

-----------------------------------------------------------------------------
(* Constructors *)

\* SupportComponentBase.__init__: assigns name, then calls self.validate(),
\* which is the subclass's validate
Named(cls, name) == Inst(cls, [name |-> name])

\* validated is the outcome of the self.validate() at line 25, run on the
\* object that has its name and nothing else
SupportComponentBase__init__(cls, name, validated) ==
    IF validated # "ok" THEN Raise(validated) ELSE Ok(Named(cls, name))

\* the rest of a subclass constructor: assign the fields, then self.validate()
Construct(base, fields, validate(_)) ==
    IF IsRaise(base) THEN base
    ELSE LET o == [base.ok EXCEPT !.a = fields @@ @]
             v == validate(o)
         IN  IF v # "ok" THEN Raise(v) ELSE Ok(o)

\* `x or dflt`
OrElse(x, dflt) == IF Truthy(x) THEN x ELSE dflt
\* `x if x is not None else dflt`
IfNone(x, dflt) == IF x # None THEN x ELSE dflt

Groove__init__(gtype, n, eps, name) ==
    Construct(SupportComponentBase__init__(
            "Groove", name, Groove_validate(Named("Groove", name))),
              [gtype |-> gtype, n |-> n, eps |-> eps],
              Groove_validate)

Chamfer__init__(side, rside, alpha, l, name) ==
    Construct(SupportComponentBase__init__(
            "Chamfer", name, Chamfer_validate(Named("Chamfer", name))),
              [side |-> side, rside |-> rside, alpha |-> alpha, l |-> l],
              Chamfer_validate)

ModelAxi__init__(name, h, turns, pitch) ==
    Construct(SupportComponentBase__init__(
            "ModelAxi", name, ModelAxi_validate(Named("ModelAxi", name))),
              [h |-> h, turns |-> OrElse(turns, List(<<>>)),
               pitch |-> OrElse(pitch, List(<<>>))],
              ModelAxi_validate)

Model3D__init__(cad, with_shapes, with_channels, name) ==
    Construct(SupportComponentBase__init__(
            "Model3D", name, Model3D_validate(Named("Model3D", name))),
              [cad |-> cad, with_shapes |-> with_shapes,
               with_channels |-> with_channels],
              Model3D_validate)

Shape__init__(name, profile, length, angle, onturns, position) ==
    Construct(SupportComponentBase__init__(
            "Shape", name, Shape_validate(Named("Shape", name))),
              [profile |-> profile,
               length |-> OrElse(length, List(<<Num(0)>>)),
               angle |-> OrElse(angle, List(<<Num(0)>>)),
               onturns |-> OrElse(onturns, List(<<Num(1)>>)),
               position |-> position],
              Shape_validate)

CoolingSlit__init__(r, angle, n, dh, sh, shape, name) ==
    Construct(SupportComponentBase__init__(
            "CoolingSlit", name, CoolingSlit_validate(Named("CoolingSlit", name))),
              [r |-> r, angle |-> angle, n |-> n, dh |-> dh, sh |-> sh,
               _shape_data |-> shape],
              CoolingSlit_validate)

Tierod__init__(r, n, dh, sh, shape, name) ==
    Construct(SupportComponentBase__init__(
            "Tierod", name, Tierod_validate(Named("Tierod", name))),
              [r |-> r, n |-> n, dh |-> dh, sh |-> sh, _shape_data |-> shape],
              Tierod_validate)

Shape2D__init__(name, pts) ==
    Construct(SupportComponentBase__init__(
            "Shape2D", name, Shape2D_validate(Named("Shape2D", name))),
              [pts |-> OrElse(pts, List(<<>>))],
              Shape2D_validate)

\* float(v) / int(v): "ok", or the exception the conversion raises
FloatOutcome(v) ==
    IF IsNum(v) THEN "ok" ELSE IF v.t = "str" THEN "ValueError" ELSE "TypeError"
ToNum(v) == Num(NumVal(v))

\* a constructor that converts the values vs with float()/int() after the base
\* constructor and before assigning the fields
ConstructConv(base, vs, fields, validate(_)) ==
    IF IsRaise(base) THEN base
    ELSE IF \E i \in 1..Len(vs) : FloatOutcome(vs[i]) # "ok"
         THEN Raise(FloatOutcome(
                  vs[CHOOSE i \in 1..Len(vs) :
                        /\ FloatOutcome(vs[i]) # "ok"
                        /\ \A j \in 1..(i - 1) : FloatOutcome(vs[j]) = "ok"]))
    ELSE Construct(base, fields, validate)

Tape__init__(w, h, e) ==
    ConstructConv(SupportComponentBase__init__(
            "Tape", Str(""), Tape_validate(Named("Tape", Str("")))),
                  <<w, h, e>>,
                  [w |-> ToNum(w), h |-> ToNum(h), e |-> ToNum(e)],
                  Tape_validate)

Isolation__init__(r0, w, h) ==
    ConstructConv(SupportComponentBase__init__(
            "Isolation", Str(""), Isolation_validate(Named("Isolation", Str("")))),
                  <<r0>>,
                  [r0 |-> ToNum(r0), w |-> IfNone(w, List(<<>>)),
                   h |-> IfNone(h, List(<<>>))],
                  Isolation_validate)

\* the default tape is built after r0 and mandrin are converted, before n
Pancake__init__(r0, tape, n, mandrin) ==
    Bind(SupportComponentBase__init__(
            "Pancake", Str(""), Pancake_validate(Named("Pancake", Str("")))),
         LAMBDA b :
           IF FloatOutcome(r0) # "ok" THEN Raise(FloatOutcome(r0))
           ELSE IF FloatOutcome(mandrin) # "ok" THEN Raise(FloatOutcome(mandrin))
           ELSE Bind(IF tape # None THEN Ok(tape)
                     ELSE Tape__init__(Num(0), Num(0), Num(0)),
                     LAMBDA t :
                       ConstructConv(Ok(b), <<n>>,
                           [r0 |-> ToNum(r0), mandrin |-> ToNum(mandrin),
                            tape |-> t, n |-> ToNum(n)],
                           Pancake_validate)))

DblPancake__init__(z0, pancake, isolation) ==
    Bind(SupportComponentBase__init__(
            "DblPancake", Str(""), DblPancake_validate(Named("DblPancake", Str("")))),
         LAMBDA b :
           IF FloatOutcome(z0) # "ok" THEN Raise(FloatOutcome(z0))
           ELSE Bind(IF pancake # None THEN Ok(pancake)
                     ELSE Pancake__init__(Num(0), None, Num(0), Num(0)),
                     LAMBDA p :
                       Bind(IF isolation # None THEN Ok(isolation)
                            ELSE Isolation__init__(Num(0), None, None),
                            LAMBDA i :
                              Construct(Ok(b),
                                  [z0 |-> ToNum(z0), pancake |-> p,
                                   isolation |-> i],
                                  DblPancake_validate))))

HTSinsert__init__(name, z0, h, r0, r1, z1, n, dblpancakes, isolations) ==
    ConstructConv(SupportComponentBase__init__(
            "HTSinsert", name, HTSinsert_validate(Named("HTSinsert", name))),
                  <<z0, h, r0, r1, z1, n>>,
                  [z0 |-> ToNum(z0), h |-> ToNum(h), r0 |-> ToNum(r0),
                   r1 |-> ToNum(r1), z1 |-> ToNum(z1), n |-> ToNum(n),
                   dblpancakes |-> IfNone(dblpancakes, List(<<>>)),
                   isolations |-> IfNone(isolations, List(<<>>))],
                  HTSinsert_validate)

-----------------------------------------------------------------------------
(* to_dict / from_dict of the support components.  from_dict takes the      *)
(* mapping m of a dict; d[k] on a missing key raises KeyError.              *)

NoKeys(m, ks) == ~(ks \subseteq DOMAIN m)

Groove_from_dict(m) ==
    IF DOMAIN m = {}
       \/ (IsNum(Get(m, "n", Num(0))) /\ NumVal(Get(m, "n", Num(0))) = 0)
    THEN Groove__init__(None, Num(0), Num(0), Str(""))
    ELSE Groove__init__(Get(m, "gtype", None), Get(m, "n", Num(0)),
                        Get(m, "eps", Num(0)), Get(m, "name", Str("")))

Groove_to_dict(o) ==
    Dict([name |-> o.a.name, gtype |-> o.a.gtype, n |-> o.a.n, eps |-> o.a.eps])

Chamfer_from_dict(m) ==
    IF NoKeys(m, {"side", "rside", "alpha"}) THEN Raise("KeyError")
    ELSE IF "L" \notin DOMAIN m /\ "l" \notin DOMAIN m THEN Raise("KeyError")
    ELSE Chamfer__init__(m.side, m.rside, m.alpha,
                         IF "L" \in DOMAIN m THEN m["L"] ELSE m["l"],
                         Get(m, "name", Str("")))

Chamfer_to_dict(o) ==
    Dict([name |-> o.a.name, side |-> o.a.side, rside |-> o.a.rside,
          alpha |-> o.a.alpha, L |-> o.a.l])

ModelAxi_from_dict(m) ==
    ModelAxi__init__(Get(m, "name", Str("")), Get(m, "h", Num(0)),
                     Get(m, "turns", List(<<>>)), Get(m, "pitch", List(<<>>)))

ModelAxi_to_dict(o) ==
    Dict([name |-> o.a.name, h |-> o.a.h, turns |-> o.a.turns,
          pitch |-> o.a.pitch])

Model3D_from_dict(m) ==
    IF NoKeys(m, {"cad"}) THEN Raise("KeyError")
    ELSE Model3D__init__(m.cad, Get(m, "with_shapes", Bool(FALSE)),
                         Get(m, "with_channels", Bool(FALSE)),
                         Get(m, "name", Str("")))

Model3D_to_dict(o) ==
    Dict([name |-> o.a.name, cad |-> o.a.cad, with_shapes |-> o.a.with_shapes,
          with_channels |-> o.a.with_channels])

\* `if not isinstance(x, list): x = [x]`
AsList(v) == IF v.t = "list" THEN v ELSE List(<<v>>)

Shape_from_dict(m) ==
    Shape__init__(Get(m, "name", Str("")), Get(m, "profile", Str("")),
                  AsList(Get(m, "length", List(<<Num(0)>>))),
                  AsList(Get(m, "angle", List(<<Num(0)>>))),
                  AsList(Get(m, "onturns", List(<<Num(1)>>))),
                  Get(m, "position", Str("ABOVE")))

Shape_to_dict(o) ==
    Dict([name |-> o.a.name, profile |-> o.a.profile, length |-> o.a.length,
          angle |-> o.a.angle, onturns |-> o.a.onturns,
          position |-> o.a.position])

Shape2D_from_dict(m) ==
    IF NoKeys(m, {"name", "pts"}) THEN Raise("KeyError")
    ELSE Shape2D__init__(m.name, m.pts)

Shape2D_to_dict(o) == Dict([name |-> o.a.name, pts |-> o.a.pts])

\* the shape of a CoolingSlit / Tierod as to_dict emits it: an object with a
\* to_dict is encoded, anything else (path string, mapping, None) is kept
ShapeData_to_dict(v) ==
    IF v.t = "obj" THEN Shape2D_to_dict(v) ELSE v

CoolingSlit_from_dict(m) ==
    IF NoKeys(m, {"r", "angle", "n", "dh", "sh", "shape"}) THEN Raise("KeyError")
    ELSE CoolingSlit__init__(m.r, m.angle, m.n, m.dh, m.sh, m.shape,
                             Get(m, "name", Str("")))

CoolingSlit_to_dict(o) ==
    Dict([name |-> o.a.name, r |-> o.a.r, angle |-> o.a.angle, n |-> o.a.n,
          dh |-> o.a.dh, sh |-> o.a.sh,
          shape |-> ShapeData_to_dict(o.a._shape_data)])

Tierod_from_dict(m) ==
    IF NoKeys(m, {"r", "n", "dh", "sh", "shape"}) THEN Raise("KeyError")
    ELSE Tierod__init__(m.r, m.n, m.dh, m.sh, m.shape, Get(m, "name", Str("")))

Tierod_to_dict(o) ==
    Dict([name |-> o.a.name, r |-> o.a.r, n |-> o.a.n, dh |-> o.a.dh,
          sh |-> o.a.sh, shape |-> ShapeData_to_dict(o.a._shape_data)])

-----------------------------------------------------------------------------
(* to_dict / from_dict of the HTS structure *)

\* [f(x) for x in l], stopping at the first element whose f raises
MapResult(l, f(_)) ==
    IF \E i \in 1..Len(l) : IsRaise(f(l[i]))
    THEN f(l[CHOOSE i \in 1..Len(l) :
                 /\ IsRaise(f(l[i]))
                 /\ \A j \in 1..(i - 1) : ~IsRaise(f(l[j]))])
    ELSE Ok(List([i \in 1..Len(l) |-> f(l[i]).ok]))

\* X.from_dict(v) on a value that may not be a dict: v.get raises
FromDictOf(v, from_dict(_)) ==
    IF v.t # "dict" THEN Raise("AttributeError") ELSE from_dict(v.m)

Tape_from_dict(m) ==
    Tape__init__(Get(m, "w", Num(0)), Get(m, "h", Num(0)), Get(m, "e", Num(0)))

Tape_to_dict(o) == Dict([w |-> o.a.w, h |-> o.a.h, e |-> o.a.e])

\* `if not isinstance(w, list): w = [w] if w else []`
AsListOrEmpty(v) ==
    IF v.t = "list" THEN v ELSE IF Truthy(v) THEN List(<<v>>) ELSE List(<<>>)

Isolation_from_dict(m) ==
    Isolation__init__(Get(m, "r0", Num(0)),
                      AsListOrEmpty(Get(m, "w", List(<<>>))),
                      AsListOrEmpty(Get(m, "h", List(<<>>))))

Isolation_to_dict(o) == Dict([r0 |-> o.a.r0, w |-> o.a.w, h |-> o.a.h])

\* a nested value that is a dict is decoded, any other value is kept
Nested(v, from_dict(_)) == IF v.t = "dict" THEN from_dict(v.m) ELSE Ok(v)

Pancake_from_dict(m) ==
    Bind(Nested(Get(m, "tape", Dict(<<>>)), Tape_from_dict),
         LAMBDA tape :
           Pancake__init__(Get(m, "r0", Num(0)), tape,
                           Get(m, "ntapes", Get(m, "n", Num(0))),
                           Get(m, "mandrin", Num(0))))

Pancake_to_dict(o) ==
    Dict([r0 |-> o.a.r0, mandrin |-> o.a.mandrin, ntapes |-> o.a.n,
          tape |-> IF Truthy(o.a.tape) THEN Tape_to_dict(o.a.tape)
                   ELSE Dict(<<>>)])

DblPancake_from_dict(m) ==
    Bind(Nested(Get(m, "pancake", Dict(<<>>)), Pancake_from_dict),
         LAMBDA pancake :
           Bind(Nested(Get(m, "isolation", Dict(<<>>)), Isolation_from_dict),
                LAMBDA isolation :
                  DblPancake__init__(Get(m, "z0", Num(0)), pancake, isolation)))

DblPancake_to_dict(o) ==
    Dict([z0 |-> o.a.z0,
          pancake |-> IF Truthy(o.a.pancake) THEN Pancake_to_dict(o.a.pancake)
                      ELSE Dict(<<>>),
          isolation |-> IF Truthy(o.a.isolation)
                        THEN Isolation_to_dict(o.a.isolation) ELSE Dict(<<>>)])

DblPancake_from_value(v) == FromDictOf(v, DblPancake_from_dict)
Isolation_from_value(v) == FromDictOf(v, Isolation_from_dict)

\* [X.from_dict(v) for v in m.get(key, [])]
FromDictList(m, key, from_value(_)) ==
    IF key \notin DOMAIN m THEN Ok(List(<<>>))
    ELSE IF m[key].t # "list" THEN Raise("TypeError")
    ELSE MapResult(m[key].l, from_value)

HTSinsert_from_dict(m) ==
    Bind(FromDictList(m, "dblpancakes", DblPancake_from_value),
         LAMBDA dps :
           Bind(FromDictList(m, "isolations", Isolation_from_value),
                LAMBDA isos :
                  HTSinsert__init__(Get(m, "name", Str("")),
                      Get(m, "z0", Num(0)), Get(m, "h", Num(0)),
                      Get(m, "r0", Num(0)), Get(m, "r1", Num(0)),
                      Get(m, "z1", Num(0)), Get(m, "n", Num(0)), dps, isos)))

HTSinsert_to_dict(o) ==
    Dict([name |-> o.a.name, z0 |-> o.a.z0, h |-> o.a.h, r0 |-> o.a.r0,
          r1 |-> o.a.r1, z1 |-> o.a.z1, n |-> o.a.n,
          dblpancakes |->
              List([i \in 1..Len(o.a.dblpancakes.l) |->
                       DblPancake_to_dict(o.a.dblpancakes.l[i])]),
          isolations |->
              List([i \in 1..Len(o.a.isolations.l) |->
                       Isolation_to_dict(o.a.isolations.l[i])])])

-----------------------------------------------------------------------------
(* Files.  A file is missing, unparseable, a plain mapping document, or a   *)
(* document carrying a YAML tag.                                            *)

NoFile == [k |-> "missing"]
Garbage == [k |-> "garbage"]
MapFile(m) == [k |-> "map", m |-> m]
TaggedFile(tag, m) == [k |-> "tagged", tag |-> tag, m |-> m]

FileAt(fsys, p) == IF p \in DOMAIN fsys THEN fsys[p] ELSE NoFile
YamlPath(s) == s \o ".yaml"

\* the files an open() of p reads: p itself unless it is missing
Opens(fsys, p) == IF FileAt(fsys, p).k = "missing" THEN <<>> ELSE <<p>>

\* reads after the files in ps have been opened, in order
RECURSIVE AddReads(_, _)
AddReads(rd, ps) ==
    IF ps = <<>> THEN rd
    ELSE AddReads([rd EXCEPT ![Head(ps)] = @ + 1], Tail(ps))

\* with open(p) as f: json.load(f)
json_load(fsys, p) ==
    LET f == FileAt(fsys, p) IN
    CASE f.k = "missing" -> Raise("FileNotFoundError")
      [] f.k = "map" -> Ok(Dict(f.m))
      [] OTHER -> Raise("JSONDecodeError")

-----------------------------------------------------------------------------
(* HTSinsert.fromcfg and the getters Supra uses *)

HTSinsert_getR0(o) == o.a.r0
HTSinsert_getR1(o) == o.a.r1
HTSinsert_getZ0(o) == o.a.z0
HTSinsert_getH(o) == o.a.h

RECURSIVE SumSeq(_)
SumSeq(l) == IF l = <<>> THEN 0 ELSE Head(l) + SumSeq(Tail(l))

\* 2 * dp.pancake.getN() for each double pancake
HTSinsert_getNtapes(o) ==
    [i \in 1..Len(o.a.dblpancakes.l) |->
        2 * NumVal(o.a.dblpancakes.l[i].a.pancake.a.n)]

Tape_getH(t) == NumVal(t.a.h)
Tape_getW(t) == NumVal(t.a.w) + NumVal(t.a.e)
Pancake_getR0(p) == NumVal(p.a.r0)
Pancake_getR1(p) ==
    IF Truthy(p.a.tape) /\ NumVal(p.a.n) > 0
    THEN NumVal(p.a.r0) + NumVal(p.a.n) * Tape_getW(p.a.tape)
    ELSE NumVal(p.a.r0)
Pancake_getH(p) == IF Truthy(p.a.tape) THEN Tape_getH(p.a.tape) ELSE 0
Isolation_getH(i) == SumSeq([k \in 1..Len(i.a.h.l) |-> NumVal(i.a.h.l[k])])
DblPancake_getR0(d) ==
    IF Truthy(d.a.pancake) THEN Pancake_getR0(d.a.pancake) ELSE 0
DblPancake_getR1(d) ==
    IF Truthy(d.a.pancake) THEN Pancake_getR1(d.a.pancake) ELSE 0
DblPancake_getH(d) ==
    (IF Truthy(d.a.pancake) THEN 2 * Pancake_getH(d.a.pancake) ELSE 0)
    + (IF Truthy(d.a.isolation) THEN Isolation_getH(d.a.isolation) ELSE 0)
DblPancake_setZ0(d, z0) == SetAttr(d, "z0", Num(z0))

\* x / 2.0; the heights of the model are even
Half(x) == x \div 2

\* a base definition of fromcfg: the default object is built first and is
\* replaced when the configuration has the key
FromCfgBase(m, key, default, from_dict(_)) ==
    IF IsRaise(default) THEN default
    ELSE IF key \in DOMAIN m THEN FromDictOf(m[key], from_dict)
    ELSE default

Min2(a, b) == IF a < b THEN a ELSE b
Max2(a, b) == IF a > b THEN a ELSE b

\* the keys a variable-form "dblpancakes" mapping may hold, in file order
DpNames == <<"dp1", "dp2", "dp3">>
IsDpName(k) == k # "isolation"

\* uniform double pancakes: {"n": n, "isolation": {...}}.  The result holds
\* n, the double pancakes (z0 still the running offset), the isolations
\* between them, the total height and the radii.
\* the group of n copies of dp0 separated by dpi
UniformGroup(n, dp0, dpi) ==
    LET cnt == NumVal(n)
        dpH == DblPancake_getH(dp0)
        isoH == Isolation_getH(dpi)
    IN  [n |-> n,
         dps |-> [i \in 1..cnt |-> DblPancake_setZ0(dp0, (i - 1) * (dpH + isoH))],
         isos |-> [i \in 1..(cnt - 1) |-> dpi],
         h |-> cnt * dpH + (cnt - 1) * isoH,
         r0 |-> DblPancake_getR0(dp0),
         r1 |-> DblPancake_getR1(dp0)]

FromCfgUniform(c, bp, bi) ==
    Bind(IF "isolation" \in DOMAIN c
         THEN FromDictOf(c.isolation, Isolation_from_dict) ELSE Ok(bi),
         LAMBDA dpi :
           IF ~IsNum(c.n) THEN Raise("TypeError")
           ELSE IF NumVal(c.n) <= 0
                THEN Ok([n |-> c.n, dps |-> <<>>, isos |-> <<>>,
                         h |-> 0, r0 |-> 0, r1 |-> 0])
           ELSE Bind(DblPancake__init__(Num(0), bp, bi),
                     LAMBDA dp0 : Ok(UniformGroup(c.n, dp0, dpi))))

\* the double pancake built for one entry of the variable form, at offset z
FromCfgEntry(dp_data, z, bp, bi) ==
    IF dp_data.t # "dict" THEN Raise("TypeError")
    ELSE Bind(IF "pancake" \in DOMAIN dp_data.m
              THEN FromDictOf(dp_data.m.pancake, Pancake_from_dict)
              ELSE Ok(bp),
              LAMBDA p :
                Bind(IF "isolation" \in DOMAIN dp_data.m
                     THEN FromDictOf(dp_data.m.isolation, Isolation_from_dict)
                     ELSE Ok(bi),
                     LAMBDA i : DblPancake__init__(Num(z), p, i)))

\* variable double pancakes: one entry per key other than "isolation"
\* the group after the double pancake dp has been added
GroupWith(acc, dp, bi, last_one) ==
    LET first == acc.dps = <<>> IN
    [n |-> acc.n,
     dps |-> Append(acc.dps, dp),
     isos |-> IF last_one THEN acc.isos ELSE Append(acc.isos, bi),
     h |-> acc.h + DblPancake_getH(dp)
           + (IF last_one THEN 0 ELSE Isolation_getH(bi)),
     r0 |-> IF first THEN DblPancake_getR0(dp)
            ELSE Min2(acc.r0, DblPancake_getR0(dp)),
     r1 |-> IF first THEN DblPancake_getR1(dp)
            ELSE Max2(acc.r1, DblPancake_getR1(dp))]

RECURSIVE FromCfgVariableFrom(_, _, _, _, _)
FromCfgVariableFrom(c, names, acc, bp, bi) ==
    IF names = <<>> THEN Ok(acc)
    ELSE Bind(FromCfgEntry(c[Head(names)], acc.h, bp, bi),
              LAMBDA dp :
                FromCfgVariableFrom(c, Tail(names),
                    GroupWith(acc, dp, bi, Len(names) = 1), bp, bi))

FromCfgVariable(c, bp, bi) ==
    LET names == SelectSeq(DpNames, LAMBDA k : k \in DOMAIN c /\ IsDpName(k))
    IN  FromCfgVariableFrom(c, names,
            [n |-> Num(Len(names)), dps |-> <<>>, isos |-> <<>>,
             h |-> 0, r0 |-> 0, r1 |-> 0], bp, bi)

\* z_current before double pancake i: the heights of the double pancakes
\* and isolations below it
RECURSIVE HeightBelow(_, _, _)
HeightBelow(dps, isos, i) ==
    IF i <= 1 THEN 0
    ELSE HeightBelow(dps, isos, i - 1) + DblPancake_getH(dps[i - 1])
         + (IF i - 1 <= Len(isos) THEN Isolation_getH(isos[i - 1]) ELSE 0)

\* the double pancakes of the configuration m
FromCfgGroup(m, bp, bi) ==
    IF "dblpancakes" \notin DOMAIN m
    THEN Ok([n |-> Num(0), dps |-> <<>>, isos |-> <<>>,
             h |-> 0, r0 |-> 0, r1 |-> 0])
    ELSE IF m.dblpancakes.t # "dict" THEN Raise("TypeError")
    ELSE IF "n" \in DOMAIN m.dblpancakes.m
         THEN FromCfgUniform(m.dblpancakes.m, bp, bi)
    ELSE FromCfgVariable(m.dblpancakes.m, bp, bi)

\* the insert built from the group g: the double pancakes are centred
FromCfgInsert(name, g) ==
    LET z1 == 0 - Half(g.h) IN
    HTSinsert__init__(Str(name), Num(0), Num(g.h), Num(g.r0), Num(g.r1),
        Num(z1), g.n,
        List([i \in 1..Len(g.dps) |->
                 DblPancake_setZ0(g.dps[i],
                     z1 + HeightBelow(g.dps, g.isos, i)
                        + Half(DblPancake_getH(g.dps[i])))]),
        List(g.isos))

\* HTSinsert.fromcfg(inputcfg): the file is read first, then the base
\* definitions are built, then the double pancakes, then the positions.
\* The struct paths of the model have no directory and no extension, so
\* the insert is named after the path.
HTSinsert_fromcfg(fsys, inputcfg) ==
    Bind(json_load(fsys, inputcfg), LAMBDA data :
    Bind(FromCfgBase(data.m, "tape", Tape__init__(Num(0), Num(0), Num(0)),
                     Tape_from_dict), LAMBDA base_tape :
    Bind(FromCfgBase(data.m, "pancake",
                     Pancake__init__(Num(0), None, Num(0), Num(0)),
                     Pancake_from_dict), LAMBDA base_pancake :
    Bind(FromCfgBase(data.m, "isolation",
                     Isolation__init__(Num(0), None, None),
                     Isolation_from_dict), LAMBDA base_isolation :
    Bind(FromCfgGroup(data.m, base_pancake, base_isolation), LAMBDA g :
         FromCfgInsert(inputcfg, g))))))

-----------------------------------------------------------------------------
(* Magnet components: construction *)

DelAttrs(o, ks) == [o EXCEPT !.a = [k \in DOMAIN @ \ ks |-> @[k]]]

\* MagnetComponentBase.__init__: the bounds and the name are checked first,
\* then the common fields are assigned (r and z as copies), then
\* self.validate() runs, before the subclass has assigned its own fields
MagnetBase(cls, name, r, z, odd, modelaxi) ==
    Inst(cls, [name |-> name, r |-> r, z |-> z, odd |-> Bool(Truthy(odd)),
               _modelaxi_data |-> modelaxi])

\* validated is the outcome of the self.validate() that ends the base
\* constructor, run on the object that has the base fields
MagnetComponentBase__init__(cls, name, r, z, odd, modelaxi, validated) ==
    LET vb == validate_bounds(r, z)
        vn == validate_string_not_empty(name)
    IN  IF vb # "ok" THEN Raise(vb)
        ELSE IF vn # "ok" THEN Raise(vn)
        ELSE IF validated # "ok" THEN Raise(validated)
        ELSE Ok(MagnetBase(cls, name, r, z, odd, modelaxi))

\* _clear_cached_properties deletes the attributes `_<property>`; the cached
\* values live under `<property>`
Supra_clear_cached_properties(o) == DelAttrs(o, {"_magnet_struct"})

\* what clearing would do if it deleted the cached values themselves
Helix_clear_cached_public(o) ==
    DelAttrs(o, {"modelaxi", "model3d", "shape", "chamfers", "grooves"})

Helix_clear_cached_properties(o) ==
    DelAttrs(o, {"_modelaxi", "_model3d", "_shape", "_chamfers", "_grooves"})

Bitter_clear_cached_properties(o) ==
    DelAttrs(o, {"_modelaxi", "_coolingslits", "_tierod"})

\* the rest of a magnet constructor: assign the fields, clear the caches
ConstructMagnet(base, fields, clear(_)) ==
    IF IsRaise(base) THEN base
    ELSE Ok(clear([base.ok EXCEPT !.a = fields @@ @]))

Supra__init__(name, r, z, n, struct) ==
    ConstructMagnet(
        MagnetComponentBase__init__("Supra", name, r, z, Bool(FALSE), None,
            Supra_validate(MagnetBase("Supra", name, r, z, Bool(FALSE), None))),
        [n |-> n, struct |-> struct, detail |-> Str("None"),
         _struct_data |-> struct],
        Supra_clear_cached_properties)

Helix__init__(name, r, z, cutwidth, odd, dble, modelaxi, model3d, shape, chamfers, grooves) ==
    ConstructMagnet(
        MagnetComponentBase__init__("Helix", name, r, z, odd, modelaxi,
            Helix_validate(MagnetBase("Helix", name, r, z, odd, modelaxi))),
        [cutwidth |-> cutwidth, dble |-> dble, _model3d_data |-> model3d,
         _shape_data |-> shape,
         _chamfers_data |-> OrElse(chamfers, List(<<>>)),
         _grooves_data |-> grooves],
        Helix_clear_cached_properties)

Bitter__init__(name, r, z, odd, modelaxi, coolingslits, tierod, innerbore, outerbore) ==
    ConstructMagnet(
        MagnetComponentBase__init__("Bitter", name, r, z, odd, modelaxi,
            Bitter_validate(MagnetBase("Bitter", name, r, z, odd, modelaxi))),
        [innerbore |-> innerbore, outerbore |-> outerbore,
         _coolingslits_data |-> OrElse(coolingslits, List(<<>>)),
         _tierod_data |-> tierod],
        Bitter_clear_cached_properties)

\* Supra.set_Detail
Supra_set_Detail(o, detail) ==
    IF ~(detail.t = "str" /\ detail.s \in DetailLevel) THEN Raise("ValueError")
    ELSE Ok(Supra_clear_cached_properties(SetAttr(o, "detail", detail)))

Supra_from_dict(m) ==
    IF NoKeys(m, {"name", "r", "z"}) THEN Raise("KeyError")
    ELSE LET supra == Supra__init__(m.name, m.r, m.z, Get(m, "n", Num(0)),
                                    Get(m, "struct", Str("")))
         IN  IF IsRaise(supra) THEN supra
             ELSE Supra_set_Detail(supra.ok, Get(m, "detail", Str("None")))

\* Supra_constructor, the YAML constructor of the tag !Supra
Supra_constructor(m) ==
    IF NoKeys(m, {"name", "r", "z", "n", "struct"}) THEN Raise("KeyError")
    ELSE LET supra == Supra__init__(m.name, m.r, m.z, m.n, m.struct)
         IN  IF IsRaise(supra) THEN supra
             ELSE IF "detail" \in DOMAIN m
                  THEN Supra_set_Detail(supra.ok, m.detail)
             ELSE supra

Helix_from_dict(m) ==
    IF NoKeys(m, {"name", "r", "z", "cutwidth", "odd", "dble"})
    THEN Raise("KeyError")
    ELSE Helix__init__(m.name, m.r, m.z, m.cutwidth, m.odd, m.dble,
                       Get(m, "modelaxi", None), Get(m, "model3d", None),
                       Get(m, "shape", None), Get(m, "chamfers", List(<<>>)),
                       Get(m, "grooves", None))

Bitter_from_dict(m) ==
    IF NoKeys(m, {"name", "r", "z", "odd"}) THEN Raise("KeyError")
    ELSE Bitter__init__(m.name, m.r, m.z, m.odd, Get(m, "modelaxi", None),
                        Get(m, "coolingslits", List(<<>>)),
                        Get(m, "tierod", None), Get(m, "innerbore", Num(0)),
                        Get(m, "outerbore", Num(0)))

\* cls.from_dict(m)
FromDict(cls, m) ==
    CASE cls = "Helix" -> Helix_from_dict(m)
      [] cls = "Bitter" -> Bitter_from_dict(m)
      [] cls = "Supra" -> Supra_from_dict(m)
      [] cls = "Chamfer" -> Chamfer_from_dict(m)
      [] cls = "Groove" -> Groove_from_dict(m)
      [] cls = "Model3D" -> Model3D_from_dict(m)
      [] cls = "ModelAxi" -> ModelAxi_from_dict(m)
      [] cls = "CoolingSlit" -> CoolingSlit_from_dict(m)
      [] cls = "Tierod" -> Tierod_from_dict(m)
      [] cls = "Shape" -> Shape_from_dict(m)
      [] cls = "Shape2D" -> Shape2D_from_dict(m)
      [] cls = "Tape" -> Tape_from_dict(m)
      [] cls = "Isolation" -> Isolation_from_dict(m)
      [] cls = "Pancake" -> Pancake_from_dict(m)
      [] cls = "DblPancake" -> DblPancake_from_dict(m)
      [] cls = "HTSinsert" -> HTSinsert_from_dict(m)
      [] OTHER -> Raise("NotImplementedError")

\* with open(p) as f: yaml.load(f, Loader=yaml.FullLoader).  A tagged
\* document is built by the constructor registered for its tag; among the
\* tags only !Supra is written to the files of the model.
yaml_load(fsys, p) ==
    LET f == FileAt(fsys, p) IN
    CASE f.k = "missing" -> Raise("FileNotFoundError")
      [] f.k = "garbage" -> Raise("YAMLError")
      [] f.k = "map" -> Ok(Dict(f.m))
      [] f.k = "tagged" /\ f.tag = "!Supra" -> Supra_constructor(f.m)
      [] OTHER -> Raise("ConstructorError")

-----------------------------------------------------------------------------
(* Lazily resolved reference fields.  A cached_property stores its value in *)
(* the instance __dict__ under the property's own name on the first read;   *)
(* later reads find it there and do not run the property body.              *)

\* expected_class.from_dict(m), for the classes that Helix and Bitter name as
\* expected_class
expected_class_from_dict(cls, m) ==
    CASE cls = "ModelAxi" -> ModelAxi_from_dict(m)
      [] cls = "Model3D" -> Model3D_from_dict(m)
      [] cls = "Shape" -> Shape_from_dict(m)
      [] cls = "Chamfer" -> Chamfer_from_dict(m)
      [] cls = "Groove" -> Groove_from_dict(m)
      [] cls = "CoolingSlit" -> CoolingSlit_from_dict(m)
      [] cls = "Tierod" -> Tierod_from_dict(m)

\* cls.from_dict(m), the raw data when it raises
FromDictOr(x, data) == IF IsRaise(x) THEN data ELSE x.ok

\* the value loaded from the YAML document y for the raw data
FromYamlOr(y, data, cls) ==
    IF IsRaise(y) THEN data
    ELSE IF IsInst(y.ok, cls) THEN y.ok
    ELSE IF y.ok.t = "dict"
         THEN FromDictOr(expected_class_from_dict(cls, y.ok.m), data)
    ELSE data

\* Helix._load_support_object / Bitter._load_support_object (same body)
\* with expected_class = cls
load_support_object(data, cls, fsys) ==
    IF data = None THEN None
    ELSE IF IsInst(data, cls) THEN data
    ELSE IF data.t = "dict"
         THEN FromDictOr(expected_class_from_dict(cls, data.m), data)
    ELSE IF data.t = "str"
         THEN FromYamlOr(yaml_load(fsys, YamlPath(data.s)), data, cls)
    ELSE data

\* the files _load_support_object opens for data
load_opens(data, fsys) ==
    IF data.t = "str" THEN Opens(fsys, YamlPath(data.s)) ELSE <<>>

\* chamfers / coolingslits: every item is loaded, falsy results are dropped;
\* the raw value is None or a list
load_support_list(raw, cls, fsys) ==
    IF ~Truthy(raw) THEN List(<<>>)
    ELSE List(SelectSeq([i \in 1..Len(raw.l) |->
                            load_support_object(raw.l[i], cls, fsys)],
                        Truthy))

RECURSIVE list_opens(_, _)
list_opens(l, fsys) ==
    IF l = <<>> THEN <<>>
    ELSE load_opens(Head(l), fsys) \o list_opens(Tail(l), fsys)

Helix_grooves(o, fsys) ==
    IF o.a._grooves_data = None
    THEN OkOrNone(Groove__init__(None, Num(0), Num(0), Str("")))
    ELSE load_support_object(o.a._grooves_data, "Groove", fsys)

Supra_magnet_struct(o, fsys) ==
    IF ~Truthy(o.a.struct) THEN None
    ELSE IF o.a.struct.t # "str" THEN None
    ELSE OkOrNone(HTSinsert_fromcfg(fsys, o.a.struct.s))

\* the files HTSinsert.fromcfg(self.struct) opens
Supra_struct_opens(o, fsys) ==
    IF Truthy(o.a.struct) /\ o.a.struct.t = "str"
    THEN Opens(fsys, o.a.struct.s) ELSE <<>>

\* the cached properties of each class
RefProps(cls) ==
    CASE cls = "Helix" -> {"modelaxi", "model3d", "shape", "chamfers", "grooves"}
      [] cls = "Bitter" -> {"modelaxi", "coolingslits", "tierod"}
      [] cls = "Supra" -> {"magnet_struct"}
      [] OTHER -> {}

AllProps ==
    {"modelaxi", "model3d", "shape", "chamfers", "grooves", "coolingslits",
     "tierod", "magnet_struct"}

\* the body of the property f of o
Resolve(o, f, fsys) ==
    CASE f = "modelaxi" ->
             load_support_object(o.a._modelaxi_data, "ModelAxi", fsys)
      [] f = "model3d" ->
             load_support_object(o.a._model3d_data, "Model3D", fsys)
      [] f = "shape" ->
             load_support_object(o.a._shape_data, "Shape", fsys)
      [] f = "chamfers" ->
             load_support_list(o.a._chamfers_data, "Chamfer", fsys)
      [] f = "grooves" -> Helix_grooves(o, fsys)
      [] f = "coolingslits" ->
             load_support_list(o.a._coolingslits_data, "CoolingSlit", fsys)
      [] f = "tierod" ->
             load_support_object(o.a._tierod_data, "Tierod", fsys)
      [] f = "magnet_struct" -> Supra_magnet_struct(o, fsys)

ResolveOpens(o, f, fsys) ==
    CASE f = "modelaxi" -> load_opens(o.a._modelaxi_data, fsys)
      [] f = "model3d" -> load_opens(o.a._model3d_data, fsys)
      [] f = "shape" -> load_opens(o.a._shape_data, fsys)
      [] f = "chamfers" -> IF ~Truthy(o.a._chamfers_data) THEN <<>>
                           ELSE list_opens(o.a._chamfers_data.l, fsys)
      [] f = "grooves" -> load_opens(o.a._grooves_data, fsys)
      [] f = "coolingslits" -> IF ~Truthy(o.a._coolingslits_data) THEN <<>>
                               ELSE list_opens(o.a._coolingslits_data.l, fsys)
      [] f = "tierod" -> load_opens(o.a._tierod_data, fsys)
      [] f = "magnet_struct" -> Supra_struct_opens(o, fsys)

\* the first read of o.f: the property body ran and gave v
FirstRead(o, f, v, opened) ==
    [o |-> SetAttr(o, f, v), v |-> v, opened |-> opened, resolved |-> TRUE]

\* the read `o.f`: the value, the object afterwards, the files opened and
\* whether the property body ran
ReadProp(o, f, fsys) ==
    IF HasAttr(o, f)
    THEN [o |-> o, v |-> o.a[f], opened |-> <<>>, resolved |-> FALSE]
    ELSE FirstRead(o, f, Resolve(o, f, fsys), ResolveOpens(o, f, fsys))

\* self._clear_cached_properties()
ClearCachedProperties(o) ==
    CASE o.cls = "Helix" -> Helix_clear_cached_properties(o)
      [] o.cls = "Bitter" -> Bitter_clear_cached_properties(o)
      [] o.cls = "Supra" -> Supra_clear_cached_properties(o)

-----------------------------------------------------------------------------
(* Supra operations *)

\* Supra.check_dimensions(magnet) for a magnet already fetched: the bounds
\* and n are overwritten in place with the structure's values
Supra_check_dimensions(o, magnet) ==
    IF ~Truthy(magnet) \/ ~Truthy(o.a.struct) THEN o
    ELSE [o EXCEPT
            !.a.r = List(<<HTSinsert_getR0(magnet), HTSinsert_getR1(magnet)>>),
            !.a.z = List(<<Num(NumVal(HTSinsert_getZ0(magnet))
                               - Half(NumVal(HTSinsert_getH(magnet)))),
                           Num(NumVal(HTSinsert_getZ0(magnet))
                               + Half(NumVal(HTSinsert_getH(magnet))))>>),
            !.a.n = Num(SumSeq(HTSinsert_getNtapes(magnet)))]

\* Supra.get_magnet_struct(): built from the file on every call, not cached
Supra_get_magnet_struct(o, fsys) == Supra_magnet_struct(o, fsys)

\* Supra.get_Nturns given the value read from self.magnet_struct
Supra_get_Nturns(o, magnet) ==
    IF ~Truthy(o.a.struct) THEN o.a.n
    ELSE IF Truthy(magnet) THEN Num(SumSeq(HTSinsert_getNtapes(magnet)))
    ELSE o.a.n

\* Supra.load(): the object's own YAML file is read, its fields are copied,
\* then the structure is built again from the (new) struct and the
\* dimensions are checked against it
\* the fields load() copies from the loaded object
Supra_load_copy(o, data) ==
    [o EXCEPT !.a = [name |-> data.a.name, r |-> data.a.r, z |-> data.a.z,
                     n |-> data.a.n, struct |-> data.a.struct,
                     detail |-> data.a.detail] @@ @]

\* the end of load(): the structure is built again and checked
Supra_load_check(o1, fsys) ==
    IF Truthy(o1.a.struct)
    THEN Ok(Supra_check_dimensions(o1, Supra_get_magnet_struct(o1, fsys)))
    ELSE Ok(o1)

Supra_load_data(o, y, fsys) ==
    IF IsRaise(y) THEN Raise("Exception")
    ELSE IF ~IsInst(y.ok, "Supra") THEN Raise("AttributeError")
    ELSE Supra_load_check(Supra_load_copy(o, y.ok), fsys)

Supra_load(o, fsys) == Supra_load_data(o, yaml_load(fsys, YamlPath(o.a.name.s)), fsys)

\* the files Supra.load() opens
Supra_load_opens_data(o, y, fsys) ==
    Opens(fsys, YamlPath(o.a.name.s))
    \o (IF ~IsRaise(y) /\ IsInst(y.ok, "Supra")
        THEN Supra_struct_opens(y.ok, fsys) ELSE <<>>)

Supra_load_opens(o, fsys) ==
    Supra_load_opens_data(o, yaml_load(fsys, YamlPath(o.a.name.s)), fsys)

-----------------------------------------------------------------------------
(* to_dict of the magnet components *)

\* the attribute names that start with an underscore
PrivateAttrs ==
    {"_modelaxi_data", "_model3d_data", "_shape_data", "_chamfers_data",
     "_grooves_data", "_coolingslits_data", "_tierod_data", "_struct_data",
     "_shape_object"}

\* SerializableBase.to_dict: the public entries of __dict__, values as they
\* are (the lists are the object's own lists)
SerializableBase_to_dict(o) ==
    Dict([k \in DOMAIN o.a \ PrivateAttrs |-> o.a[k]])

Supra_to_dict(o) ==
    Dict([name |-> o.a.name, r |-> o.a.r, z |-> o.a.z, n |-> o.a.n,
          struct |-> o.a.struct, detail |-> o.a.detail])

\* o.to_dict()
ToDict(o) ==
    CASE o.cls = "Supra" -> Supra_to_dict(o)
      [] o.cls = "Groove" -> Groove_to_dict(o)
      [] o.cls = "Chamfer" -> Chamfer_to_dict(o)
      [] o.cls = "ModelAxi" -> ModelAxi_to_dict(o)
      [] o.cls = "Model3D" -> Model3D_to_dict(o)
      [] o.cls = "Shape" -> Shape_to_dict(o)
      [] o.cls = "Shape2D" -> Shape2D_to_dict(o)
      [] o.cls = "CoolingSlit" -> CoolingSlit_to_dict(o)
      [] o.cls = "Tierod" -> Tierod_to_dict(o)
      [] o.cls = "Tape" -> Tape_to_dict(o)
      [] o.cls = "Isolation" -> Isolation_to_dict(o)
      [] o.cls = "Pancake" -> Pancake_to_dict(o)
      [] o.cls = "DblPancake" -> DblPancake_to_dict(o)
      [] o.cls = "HTSinsert" -> HTSinsert_to_dict(o)
      [] OTHER -> SerializableBase_to_dict(o)

\* MagnetComponentBase.get_bounds: copies of r and z
get_bounds(o) == List(<<o.a.r, o.a.z>>)

-----------------------------------------------------------------------------
(* The life of one magnet component *)

MaxCoord == 2    \* the caller writes coordinates 0..MaxCoord
MaxReads == 2    \* get_magnet_struct / load stop once a file was read this often
MaxWrites == 1   \* writes the caller makes through the lists it holds

Bounds(a, b) == List(<<Num(a), Num(b)>>)

NameInputs == {Str("x"), Str("")}
RInputs == {Bounds(1, 2), Bounds(2, 2), Bounds(2, 1)}
ZInputs == {Bounds(0, 1), Bounds(1, 1), Bounds(1, 0)}

ModelAxiDoc ==
    [name |-> Str("ma"), h |-> Num(2), turns |-> List(<<Num(1)>>),
     pitch |-> List(<<Num(2)>>)]
Model3DDoc ==
    [name |-> Str("m3"), cad |-> Str("c"), with_shapes |-> Bool(FALSE),
     with_channels |-> Bool(FALSE)]
ChamferDoc ==
    [name |-> Str("ch"), side |-> Str("HP"), rside |-> Str("rint"),
     alpha |-> Num(45), L |-> Num(1)]
GrooveDoc ==
    [name |-> Str("g"), gtype |-> Str("rint"), n |-> Num(2), eps |-> Num(1)]
SlitDoc ==
    [name |-> Str("s"), r |-> Num(1), angle |-> Num(0), n |-> Num(2),
     dh |-> Num(1), sh |-> Num(1), shape |-> Str("x")]
TierodDoc ==
    [name |-> Str("t"), r |-> Num(1), n |-> Num(2), dh |-> Num(1),
     sh |-> Num(1), shape |-> Str("x")]

\* Cut widths and bore pairs handed to the constructors: one admissible, one
\* that the class's validate() rejects.
CutwidthInputs == {Num(0), Num(1)}

BoreInputs == {<<Num(1), Num(2)>>, <<Num(2), Num(1)>>}

\* <<modelaxi, model3d, chamfers, grooves>> given to Helix: nothing, or file
\* references and inline mappings
HelixInputs ==
    {<<None, None, None, None>>,
     <<Str("x"), Dict(Model3DDoc), List(<<Dict(ChamferDoc), Str("x")>>),
       Dict(GrooveDoc)>>}
\* <<modelaxi, coolingslits, tierod>> given to Bitter
BitterInputs ==
    {<<None, List(<<>>), None>>,
     <<Dict(ModelAxiDoc), List(<<Dict(SlitDoc), Str("x")>>), Str("x")>>}
StructInputs == {Str(""), Str("cfg")}
DetailInputs == {Str("None"), Str("tape"), Str("turn")}

\* a configuration of one uniform double pancake
CfgDoc ==
    [tape |-> Dict([w |-> Num(1), h |-> Num(2), e |-> Num(0)]),
     pancake |-> Dict([r0 |-> Num(1), mandrin |-> Num(1), ntapes |-> Num(2),
                       tape |-> Dict([w |-> Num(1), h |-> Num(2), e |-> Num(0)])]),
     isolation |-> Dict([r0 |-> Num(1), w |-> List(<<Num(1)>>),
                         h |-> List(<<Num(2)>>)]),
     dblpancakes |-> Dict([n |-> Num(1)])]

\* the YAML file of a Supra named "x"
SupraDoc(r) ==
    [name |-> Str("x"), r |-> r, z |-> Bounds(0, 2), n |-> Num(3),
     struct |-> Str("cfg")]

Files == {"x.yaml", "cfg"}
Contents(p) ==
    IF p = "cfg" THEN {Garbage, MapFile(CfgDoc)}
    ELSE {NoFile, MapFile(ModelAxiDoc),
          TaggedFile("!Supra", SupraDoc(Bounds(0, 2)))}

Call(op, f, args, exc, ret) ==
    [op |-> op, f |-> f, args |-> args, exc |-> exc, ret |-> ret]
NoCall == Call("", "", None, "", None)
Exc(res) == IF IsRaise(res) THEN res.exc ELSE ""
Value(res) == IF IsRaise(res) THEN None ELSE res.ok

NoHandle == [kind |-> "none", v |-> None]
NoDecode ==
    [d |-> None, after |-> None, ret |-> None, exc |-> "", known |-> FALSE]

\* deserialize.classes as built at import: every class under its name and
\* under its yaml_tag (the structural classes are left out of the model)
Registry ==
    [k \in {"Helix", "Bitter", "Supra", "Chamfer", "Groove", "Model3D",
            "ModelAxi", "CoolingSlit", "Tierod", "!Chamfer", "!Groove",
            "!Model3D", "!ModelAxi", "!Slit", "!Tierod"} |->
        CASE k = "!Chamfer" -> "Chamfer"
          [] k = "!Groove" -> "Groove"
          [] k = "!Model3D" -> "Model3D"
          [] k = "!ModelAxi" -> "ModelAxi"
          [] k = "!Slit" -> "CoolingSlit"
          [] k = "!Tierod" -> "Tierod"
          [] OTHER -> k]

Init ==
    /\ obj = None
    /\ fs \in [Files -> UNION {Contents(p) : p \in Files}]
    /\ \A p \in Files : fs[p] \in Contents(p)
    /\ reads = [p \in Files |-> 0]
    /\ resolves = [f \in AllProps |-> 0]
    /\ held = NoHandle
    /\ writes = 0
    /\ last = NoCall
    /\ classes = Registry
    /\ dec = NoDecode

\* the result of a constructor call becomes the object under study
Built(cls, name, r, z, res) ==
    /\ obj' = Value(res)
    /\ last' = Call(cls, "", List(<<name, r, z>>), Exc(res), None)
    /\ UNCHANGED <<fs, reads, resolves, held, writes, classes, dec>>

NewHelix ==
    /\ obj = None
    /\ \E name \in NameInputs, r \in RInputs, z \in ZInputs,
          cutwidth \in CutwidthInputs, refs \in HelixInputs :
           Built("Helix", name, r, z,
                 Helix__init__(name, r, z, cutwidth, Bool(FALSE), Bool(TRUE),
                               refs[1], refs[2], None, refs[3], refs[4]))

NewBitter ==
    /\ obj = None
    /\ \E name \in NameInputs, r \in RInputs, z \in ZInputs,
          bores \in BoreInputs, refs \in BitterInputs :
           Built("Bitter", name, r, z,
                 Bitter__init__(name, r, z, Bool(FALSE), refs[1], refs[2],
                                refs[3], bores[1], bores[2]))

NewSupra ==
    /\ obj = None
    /\ \E name \in NameInputs, r \in RInputs, z \in ZInputs,
          st \in StructInputs :
           Built("Supra", name, r, z, Supra__init__(name, r, z, Num(3), st))

\* an operation op that reads the property prop: the read went as rp, the
\* operation leaves the object as after and returns ret
ReadAs(op, f, prop, rp, after, ret) ==
    /\ obj' = after
    /\ reads' = AddReads(reads, rp.opened)
    /\ resolves' = IF rp.resolved THEN [resolves EXCEPT ![prop] = @ + 1]
                   ELSE resolves
    /\ last' = Call(op, f, None, "", ret)
    /\ UNCHANGED <<fs, held, writes, classes, dec>>

\* x = obj.f for a reference property f
ReadFieldAs(f, rp) == ReadAs("read", f, f, rp, rp.o, rp.v)

ReadField(f) ==
    /\ obj # None
    /\ f \in RefProps(obj.cls)
    /\ ReadFieldAs(f, ReadProp(obj, f, fs))

ClearCached ==
    /\ obj # None
    /\ obj' = ClearCachedProperties(obj)
    /\ last' = Call("_clear_cached_properties", "", None, "", None)
    /\ UNCHANGED <<fs, reads, resolves, held, writes, classes, dec>>

SetDetail(d) ==
    /\ obj # None /\ obj.cls = "Supra"
    /\ obj' = FromDictOr(Supra_set_Detail(obj, d), obj)
    /\ last' = Call("set_Detail", "", d, Exc(Supra_set_Detail(obj, d)), None)
    /\ UNCHANGED <<fs, reads, resolves, held, writes, classes, dec>>

\* the files in ps may still be read
MayRead(ps) == \A i \in 1..Len(ps) : reads[ps[i]] < MaxReads

GetMagnetStruct ==
    /\ obj # None /\ obj.cls = "Supra"
    /\ MayRead(Supra_struct_opens(obj, fs))
    /\ reads' = AddReads(reads, Supra_struct_opens(obj, fs))
    /\ last' = Call("get_magnet_struct", "", None, "",
                    Supra_get_magnet_struct(obj, fs))
    /\ UNCHANGED <<obj, fs, resolves, held, writes, classes, dec>>

\* the read `self.magnet_struct`
InsertRead == ReadProp(obj, "magnet_struct", fs)

\* magnet = self.magnet_struct; self.check_dimensions(magnet)
CheckDimensionsAs(op, rp) ==
    ReadAs(op, "", "magnet_struct", rp, Supra_check_dimensions(rp.o, rp.v),
           None)

CheckDimensions ==
    /\ obj # None /\ obj.cls = "Supra"
    /\ CheckDimensionsAs("check_dimensions", InsertRead)

\* Supra.get_names: the structure is consulted only when detail is not "None"
GetNames ==
    /\ obj # None /\ obj.cls = "Supra"
    /\ IF obj.a.detail = Str("None")
       THEN /\ last' = Call("get_names", "", None, "", None)
            /\ UNCHANGED <<obj, fs, reads, resolves, held, writes, classes, dec>>
       ELSE CheckDimensionsAs("get_names", InsertRead)

GetNturnsAs(rp) ==
    ReadAs("get_Nturns", "", "magnet_struct", rp, rp.o,
           Supra_get_Nturns(rp.o, rp.v))

GetNturns ==
    /\ obj # None /\ obj.cls = "Supra"
    /\ IF ~Truthy(obj.a.struct)
       THEN /\ last' = Call("get_Nturns", "", None, "", obj.a.n)
            /\ UNCHANGED <<obj, fs, reads, resolves, held, writes, classes, dec>>
       ELSE GetNturnsAs(InsertRead)

\* load() rebinds self.r and self.z, so a list the caller holds from to_dict
\* is no longer the object's list afterwards
LoadDone(res, opened) ==
    /\ obj' = IF IsRaise(res) THEN obj ELSE res.ok
    /\ held' = IF IsRaise(res) THEN held ELSE NoHandle
    /\ last' = Call("load", "", None, Exc(res), None)
    /\ reads' = AddReads(reads, opened)
    /\ UNCHANGED <<fs, resolves, writes, classes, dec>>

Load ==
    /\ obj # None /\ obj.cls = "Supra"
    /\ MayRead(Supra_load_opens(obj, fs))
    /\ LoadDone(Supra_load(obj, fs), Supra_load_opens(obj, fs))

\* d = obj.to_dict(): the caller now holds the object's own r and z lists
ToDictCall ==
    /\ obj # None
    /\ held' = [kind |-> "to_dict", v |-> None]
    /\ last' = Call("to_dict", "", None, "", ToDict(obj))
    /\ UNCHANGED <<obj, fs, reads, resolves, writes, classes, dec>>

\* r, z = obj.get_bounds(): the caller holds copies
GetBounds ==
    /\ obj # None
    /\ held' = [kind |-> "get_bounds", v |-> get_bounds(obj)]
    /\ last' = Call("get_bounds", "", None, "", get_bounds(obj))
    /\ UNCHANGED <<obj, fs, reads, resolves, writes, classes, dec>>

\* the caller assigns element i of the r (w = 1) or z (w = 2) list it holds
CallerWrite(w, i, val) ==
    /\ obj # None
    /\ held.kind # "none"
    /\ writes < MaxWrites
    /\ writes' = writes + 1
    /\ IF held.kind = "to_dict"
       THEN /\ obj' = IF w = 1 THEN [obj EXCEPT !.a.r.l[i] = Num(val)]
                              ELSE [obj EXCEPT !.a.z.l[i] = Num(val)]
            /\ held' = held
       ELSE /\ held' = [held EXCEPT !.v.l[w].l[i] = Num(val)]
            /\ obj' = obj
    /\ last' = Call("caller_write", "", None, "", None)
    /\ UNCHANGED <<fs, reads, resolves, classes, dec>>

\* the record of y = type(obj).from_dict(obj.to_dict())
Decoded(enc, res) ==
    last' = Call("roundtrip", "", enc, Exc(res), Value(res))

RoundTrip ==
    /\ obj # None
    /\ Decoded(ToDict(obj), FromDict(obj.cls, ToDict(obj).m))
    /\ UNCHANGED <<obj, fs, reads, resolves, held, writes, classes, dec>>

\* the environment replaces a file
FileChange(p, c) ==
    /\ fs[p] # c
    /\ fs' = [fs EXCEPT ![p] = c]
    /\ UNCHANGED <<obj, reads, resolves, held, writes, last, classes, dec>>

Next ==
    \/ NewHelix
    \/ NewBitter
    \/ NewSupra
    \/ \E f \in AllProps : ReadField(f)
    \/ ClearCached
    \/ \E d \in DetailInputs : SetDetail(d)
    \/ GetMagnetStruct
    \/ CheckDimensions
    \/ GetNames
    \/ GetNturns
    \/ Load
    \/ ToDictCall
    \/ GetBounds
    \/ RoundTrip
    \/ \E p \in Files : \E c \in Contents(p) : FileChange(p, c)

Spec == Init /\ [][Next]_vars

\* The same component with a caller that writes into the lists it was handed:
\* every operation that assigns or exposes r and z.
NextAlias ==
    \/ NewHelix
    \/ NewBitter
    \/ NewSupra
    \/ \E d \in DetailInputs : SetDetail(d)
    \/ CheckDimensions
    \/ GetNames
    \/ Load
    \/ ToDictCall
    \/ GetBounds
    \/ \E w \in 1..2, i \in 1..2, val \in 0..MaxCoord : CallerWrite(w, i, val)
    \/ \E p \in Files : \E c \in Contents(p) : FileChange(p, c)

SpecAlias == Init /\ [][NextAlias]_vars

-----------------------------------------------------------------------------
(* deserialize.py: the class registry and unserialize_object *)

\* cls.yaml_tag
YamlTag(cls) ==
    CASE cls = "CoolingSlit" -> "!Slit"
      [] cls \in {"Helix", "Bitter", "Supra"} -> cls
      [] OTHER -> "!" \o cls

\* hash(v) succeeds: lists and dicts are unhashable
Hashable(v) == v.t \notin {"list", "dict"}

\* the outcome of a call that was handed the dict d: the value returned or
\* the exception raised, and the content of d after the call
Outcome(res, after) == [res |-> res, after |-> after]

\* unserialize_object(d) with the registry reg; m is the content of d.  The
\* discriminant is popped first; it is put back when the class is unknown
\* and when from_dict raises.
unserialize_object(m, reg) ==
    LET clsname == Get(m, "__classname__", None)
        rest == Pop(m, "__classname__")
        restored == Put(rest, "__classname__", clsname)
    IN  IF ~Truthy(clsname) THEN Outcome(Ok(Dict(rest)), rest)
        ELSE IF ~Hashable(clsname) THEN Outcome(Raise("TypeError"), rest)
        ELSE IF ~(clsname.t = "str" /\ clsname.s \in DOMAIN reg)
             THEN Outcome(Ok(Dict(restored)), restored)
        ELSE IF IsRaise(FromDict(reg[clsname.s], rest))
             THEN Outcome(Ok(Dict(restored)), restored)
        ELSE Outcome(FromDict(reg[clsname.s], rest), rest)

\* register_class(cls, name): `name or cls.__name__`, and the yaml_tag
register_class(reg, cls, name) ==
    LET class_name == IF Truthy(name) THEN name.s ELSE cls IN
    [k \in DOMAIN reg \cup {class_name, YamlTag(cls)} |->
        IF k \in {class_name, YamlTag(cls)} THEN cls ELSE reg[k]]

\* unregister_class(name): the registry afterwards
unregister_class(reg, name) == [k \in DOMAIN reg \ {name} |-> reg[k]]

\* what a caller may find under __classname__
ClassnameInputs ==
    {None, Str(""), Num(0), Num(7), List(<<Str("x")>>), Str("FutureType"),
     Str("Supra"), Str("Groove"), Str("!Groove"), Str("Tape")}

TapeDoc == [w |-> Num(1), h |-> Num(2), e |-> Num(0)]

PayloadInputs ==
    {<<>>, GrooveDoc, TapeDoc, SupraDoc(Bounds(0, 2)), SupraDoc(Bounds(2, 2))}

\* the mappings handed to unserialize_object: with and without discriminant
DecodeInputs ==
    PayloadInputs
    \cup {Put(pl, "__classname__", c) : pl \in PayloadInputs, c \in ClassnameInputs}

RegisterInputs == {"Tape", "Supra"}
NameInputsRegister == {None, Str("FutureType")}
UnregisterInputs ==
    {"Groove", "!Groove", "Tape", "Supra", "FutureType", "Nothing"}

\* v is a key of the registry reg
Registered(v, reg) == v.t = "str" /\ v.s \in DOMAIN reg

\* the record of one call: the mapping handed in, its content afterwards,
\* the value returned or the exception raised, and whether the discriminant
\* was a registered name when the call was made
Decode(m, out) ==
    dec' = [d |-> Dict(m), after |-> Dict(out.after), ret |-> Value(out.res),
            exc |-> Exc(out.res),
            known |-> Registered(Get(m, "__classname__", None), classes)]

Unserialize(m) ==
    /\ Decode(m, unserialize_object(m, classes))
    /\ UNCHANGED <<obj, fs, reads, resolves, held, writes, last, classes>>

RegisterClass(cls, name) ==
    /\ classes' = register_class(classes, cls, name)
    /\ last' = Call("register_class", cls, name, "", None)
    /\ UNCHANGED <<obj, fs, reads, resolves, held, writes, dec>>

UnregisterClass(name) ==
    /\ classes' = unregister_class(classes, name)
    /\ last' = Call("unregister_class", name,
                    IF name \in DOMAIN classes THEN Str(classes[name]) ELSE None,
                    "",
                    Bool(name \in DOMAIN classes))
    /\ UNCHANGED <<obj, fs, reads, resolves, held, writes, dec>>

NextDecode ==
    \/ \E m \in DecodeInputs : Unserialize(m)
    \/ \E cls \in RegisterInputs, name \in NameInputsRegister :
           RegisterClass(cls, name)
    \/ \E name \in UnregisterInputs : UnregisterClass(name)

\* no component is built here and no file matters
InitNoFiles == Init /\ fs = [p \in Files |-> IF p = "cfg" THEN Garbage ELSE NoFile]

SpecDecode == InitNoFiles /\ [][NextDecode]_vars

-----------------------------------------------------------------------------
(* Claims about unserialize_object *)

\* the last call was handed a mapping that carries the discriminant with a
\* value that was not a registered name
UnknownClassDecoded ==
    /\ dec.d # None
    /\ "__classname__" \in DOMAIN dec.d.m
    /\ ~dec.known

\* C1: a mapping whose __classname__ is not a registered class name is
\* returned unchanged, discriminant included, and nothing is raised.
\* Refuted: a falsy discriminant ("", 0, None) is popped and not put back,
\* and an unhashable one raises TypeError from the registry lookup.
C1_UnknownClassReturnedUnchanged ==
    UnknownClassDecoded => dec.exc = "" /\ dec.ret = dec.d

-----------------------------------------------------------------------------
(* Claims about the round trip of a magnet *)

\* the attributes that hold the declared fields of a magnet: the plain
\* fields and the stored data of the reference fields
DeclaredFields(cls) ==
    CASE cls = "Helix" ->
             {"name", "r", "z", "odd", "cutwidth", "dble", "_modelaxi_data",
              "_model3d_data", "_shape_data", "_chamfers_data", "_grooves_data"}
      [] cls = "Bitter" ->
             {"name", "r", "z", "odd", "innerbore", "outerbore",
              "_modelaxi_data", "_coolingslits_data", "_tierod_data"}
      [] cls = "Supra" -> {"name", "r", "z", "n", "struct", "detail"}

SameFields(x, y) ==
    /\ y.t = "obj"
    /\ y.cls = x.cls
    /\ \A k \in DeclaredFields(x.cls) : k \in DOMAIN y.a /\ y.a[k] = x.a[k]

\* the last call was from_dict(x.to_dict()) on a valid magnet
MagnetRoundTripped ==
    /\ last.op = "roundtrip"
    /\ obj # None
    /\ Validate(obj) = "ok"

\* C2: for every valid Helix, Bitter or Supra x, from_dict(x.to_dict())
\* succeeds and every field of the result equals the field of x, reference
\* fields included, whether or not they were read on x before encoding.
\* Refuted: Helix and Bitter encode with SerializableBase.to_dict, which
\* leaves out the private attributes that hold an unread reference.
C2_MagnetRoundTrip ==
    MagnetRoundTripped => last.exc = "" /\ SameFields(obj, last.ret)

-----------------------------------------------------------------------------
(* Round trip of the HTS entities and of the support descriptors.  An entity
   is given by the attributes its constructor assigns, with values that its
   own validate() accepts. *)

MaxDim == 2

Dims == 0..MaxDim

ValidOnes(S) == {x \in S : Validate(x) = "ok"}

Tapes ==
    ValidOnes({Inst("Tape", [name |-> Str(""), w |-> Num(w), h |-> Num(h),
                             e |-> Num(e)]) : w \in Dims, h \in Dims,
                                              e \in 0..1})

SomeTapes == {t \in Tapes : t.a.w.n = t.a.h.n /\ t.a.e.n = 0 /\ t.a.w.n > 0}

Isolations ==
    ValidOnes({Inst("Isolation", [name |-> Str(""), r0 |-> Num(r),
                                  w |-> List(w), h |-> List(h)]) :
                  r \in Dims, w \in {<<>>, <<Num(1)>>},
                  h \in {<<>>, <<Num(1), Num(2)>>}})

SomeIsolations == {i \in Isolations : i.a.r0.n = 1 /\ i.a.h.l = <<>>}

Pancakes ==
    ValidOnes({Inst("Pancake", [name |-> Str(""), r0 |-> Num(r),
                                mandrin |-> Num(m), tape |-> t, n |-> Num(n)]) :
                  r \in Dims, m \in Dims, t \in SomeTapes, n \in 0..1})

SomePancakes == {p \in Pancakes : p.a.r0.n = 1 /\ p.a.mandrin.n = 1}

DblPancakes ==
    ValidOnes({Inst("DblPancake", [name |-> Str(""), z0 |-> Num(z),
                                   pancake |-> p, isolation |-> i]) :
                  z \in Dims, p \in SomePancakes, i \in SomeIsolations})

SomeDblPancakes == {d \in DblPancakes : d.a.pancake.a.n.n = 1}

Inserts ==
    ValidOnes({Inst("HTSinsert",
                    [name |-> Str("ins"), z0 |-> Num(0), h |-> Num(h),
                     r0 |-> Num(1), r1 |-> Num(2), z1 |-> Num(0), n |-> Num(n),
                     dblpancakes |-> List(dps), isolations |-> List(isos)]) :
                  h \in 1..MaxDim, n \in 0..1,
                  dps \in {<<>>} \cup {<<d>> : d \in SomeDblPancakes}
                          \cup {<<d, e>> : d \in {x \in SomeDblPancakes :
                                                      x.a.z0.n = 0},
                                           e \in {x \in SomeDblPancakes :
                                                      x.a.z0.n = MaxDim}},
                  isos \in {<<>>} \cup {<<i>> : i \in SomeIsolations}})

HTSEntities == Tapes \cup Isolations \cup Pancakes \cup DblPancakes \cup Inserts

Grooves ==
    ValidOnes({Inst("Groove", [name |-> nm, gtype |-> g, n |-> Num(n),
                               eps |-> Num(e)]) :
                  nm \in {Str(""), Str("g")},
                  g \in {None, Str("rint"), Str("rext")},
                  n \in Dims, e \in Dims})

Chamfers ==
    ValidOnes({Inst("Chamfer", [name |-> Str("ch"), side |-> Str(sd),
                                rside |-> Str(rs), alpha |-> Num(45),
                                l |-> Num(l)]) :
                  sd \in {"HP", "BP"}, rs \in {"rint", "rext"}, l \in Dims})

ModelAxis ==
    ValidOnes({Inst("ModelAxi", [name |-> Str("ma"), h |-> Num(h),
                                 turns |-> List(t), pitch |-> List(t)]) :
                  h \in Dims, t \in {<<>>, <<Num(1)>>, <<Num(1), Num(2)>>}})

Model3Ds ==
    ValidOnes({Inst("Model3D", [name |-> Str("m3"), cad |-> Str(c),
                                with_shapes |-> Bool(a),
                                with_channels |-> Bool(b)]) :
                  c \in {"c", ""}, a \in BOOLEAN, b \in BOOLEAN})

CoolingSlits ==
    ValidOnes({Inst("CoolingSlit", [name |-> Str("s"), r |-> Num(r),
                                    angle |-> Num(0), n |-> Num(n),
                                    dh |-> Num(1), sh |-> Num(1),
                                    _shape_data |-> sp]) :
                  r \in Dims, n \in Dims, sp \in {None, Str("x")}})

Tierods ==
    ValidOnes({Inst("Tierod", [name |-> Str("t"), r |-> Num(r), n |-> Num(n),
                               dh |-> Num(1), sh |-> Num(1),
                               _shape_data |-> sp]) :
                  r \in Dims, n \in Dims, sp \in {None, Str("x")}})

Shapes ==
    ValidOnes({Inst("Shape", [name |-> Str("sh"), profile |-> Str("p"),
                              length |-> List(<<Num(l)>>),
                              angle |-> List(<<Num(0)>>),
                              onturns |-> List(<<Num(t)>>),
                              position |-> Str(pos)]) :
                  l \in Dims, t \in Dims,
                  pos \in {"ABOVE", "BELOW", "ALTERNATE"}})

Shape2Ds ==
    ValidOnes({Inst("Shape2D", [name |-> Str("s2"), pts |-> List(pts)]) :
                  pts \in {<<>>} \cup
                          {<<List(<<Num(0), Num(0)>>), List(<<Num(a), Num(0)>>),
                             List(<<Num(0), Num(a)>>)>> : a \in 1..MaxDim}})

SupportEntities ==
    Grooves \cup Chamfers \cup ModelAxis \cup Model3Ds \cup CoolingSlits
        \cup Tierods \cup Shapes \cup Shape2Ds

\* y = type(x).from_dict(x.to_dict())
EntityRoundTrip(x, res) ==
    /\ last' = Call("roundtrip", x.cls, x, Exc(res), Value(res))
    /\ UNCHANGED <<obj, fs, reads, resolves, held, writes, classes, dec>>

RoundTripHTS ==
    \E x \in HTSEntities : EntityRoundTrip(x, FromDict(x.cls, ToDict(x).m))

RoundTripSupport ==
    \E x \in SupportEntities : EntityRoundTrip(x, FromDict(x.cls, ToDict(x).m))

NextRoundTrip == RoundTripHTS \/ RoundTripSupport

SpecRoundTrip == InitNoFiles /\ [][NextRoundTrip]_vars

HTSClasses == {"Tape", "Isolation", "Pancake", "DblPancake", "HTSinsert"}

\* C3: for every valid Tape, Isolation, Pancake, DblPancake and HTSinsert x,
\* from_dict(x.to_dict()) reproduces every field value of x, nested objects,
\* ordered lists and each double pancake's z0 included.
\* Refuted: every from_dict ends in a constructor whose base class calls
\* validate() before the fields exist, so it raises.
C3_HTSRoundTrip ==
    (last.op = "roundtrip" /\ last.f \in HTSClasses)
        => last.exc = "" /\ last.ret = last.args

\* C4: for every valid support descriptor or shape x, from_dict(x.to_dict())
\* reproduces every field value of x; a Groove with n = 0 keeps its name,
\* gtype and eps.
\* Refuted for the same reason as C3; Groove.from_dict moreover builds an
\* empty Groove() whenever n = 0.
C4_SupportRoundTrip ==
    (last.op = "roundtrip" /\ last.f \notin HTSClasses /\ last.f # "")
        => last.exc = "" /\ last.ret = last.args

-----------------------------------------------------------------------------
(* Claims about to_dict of a magnet *)

RECURSIVE HoldsInstance(_)
\* an entity instance occurs somewhere in the value v
HoldsInstance(v) ==
    CASE v.t = "obj" -> TRUE
      [] v.t = "list" -> \E i \in 1..Len(v.l) : HoldsInstance(v.l[i])
      [] v.t = "dict" -> \E k \in DOMAIN v.m : HoldsInstance(v.m[k])
      [] OTHER -> FALSE

\* the private attribute that stores the raw value of reference field f
DataAttr(f) == "_" \o f \o "_data"

\* reference field f of o has not been read and holds a path or a mapping
Unresolved(o, f) ==
    /\ ~HasAttr(o, f)
    /\ o.a[DataAttr(f)].t \in {"str", "dict", "list"}
    /\ Truthy(o.a[DataAttr(f)])

\* the last call was to_dict() on the magnet
ToDictCalled == last.op = "to_dict" /\ obj # None

\* C5: to_dict() returns a mapping with all non-private declared attributes,
\* holding no entity instance, in which a reference field that is still
\* unresolved appears as its raw path or raw mapping, unchanged.
\* Refuted: the inherited to_dict of Helix and Bitter skips the private
\* attribute of an unresolved reference, so the field is absent.
C5_ToDictComplete ==
    ToDictCalled =>
        /\ \A k \in DeclaredFields(obj.cls) \ PrivateAttrs :
              k \in DOMAIN last.ret.m /\ last.ret.m[k] = obj.a[k]
        /\ ~HoldsInstance(last.ret)
        /\ \A f \in RefProps(obj.cls) \ {"magnet_struct"} :
              Unresolved(obj, f) =>
                  f \in DOMAIN last.ret.m
                      /\ last.ret.m[f] = obj.a[DataAttr(f)]

-----------------------------------------------------------------------------
(* Claims about the reference fields of a magnet *)

\* functools.cached_property keeps the value of f in __dict__ under f
Resolved(o, f) == HasAttr(o, f)

\* this step is a read of reference field f
ReadsField(f) == last'.op = "read" /\ last'.f = f

\* the step of a field that is already resolved: it stays resolved with the
\* same value, is not resolved again, and a read returns the cached value
StaysResolved(f) ==
    /\ Resolved(obj', f)
    /\ obj'.a[f] = obj.a[f]
    /\ resolves'[f] = resolves[f]
    /\ ReadsField(f) => last'.ret = obj.a[f]

\* the step of a field that is not resolved yet: it becomes resolved exactly
\* when it is resolved once, which a read of it always does (the Supra
\* operations that use the Insert read it too), returning the cached value
ResolvesOnRead(f) ==
    /\ resolves'[f] = IF Resolved(obj', f) THEN resolves[f] + 1 ELSE resolves[f]
    /\ ReadsField(f) => Resolved(obj', f) /\ last'.ret = obj'.a[f]

\* the step that constructs the magnet resolves nothing and reads no file
ConstructsUnresolved ==
    /\ reads' = reads
    /\ resolves' = resolves
    /\ \A f \in RefProps(obj'.cls) : ~Resolved(obj', f)

FieldLifecycle ==
    IF obj = None
    THEN obj' # None => ConstructsUnresolved
    ELSE /\ obj' # None
         /\ \A f \in RefProps(obj.cls) :
               IF Resolved(obj, f) THEN StaysResolved(f) ELSE ResolvesOnRead(f)

InsertResolved ==
    /\ obj # None /\ obj.cls = "Supra"
    /\ Resolved(obj, "magnet_struct")
    /\ obj.a.struct.t = "str" /\ obj.a.struct.s \in Files

\* C7: once a Supra's Insert has been resolved from struct, no later
\* operation on the Supra reads the underlying file again.
\* Refuted: get_magnet_struct(), and load() through it, call
\* HTSinsert.fromcfg(self.struct) again instead of using the cached Insert.
C7_InsertFileReadOnce ==
    [][InsertResolved => reads'[obj.a.struct.s] = reads[obj.a.struct.s]]_vars

\* the raw value that reference field f of o was given
RawValue(o, f) == IF f = "magnet_struct" THEN o.a.struct ELSE o.a[DataAttr(f)]

\* the last call read a reference field that holds a raw value, and the
\* resolution did not produce an entity
UnresolvableRead ==
    /\ last.op = "read"
    /\ obj # None
    /\ Truthy(RawValue(obj, last.f))
    /\ ~HoldsInstance(last.ret)

\* C8: reading a reference field whose raw value cannot be resolved never
\* raises and yields the original raw value.
\* Refuted: Supra.magnet_struct answers None, not the raw struct, when
\* HTSinsert.fromcfg fails.
C8_UnresolvableReadYieldsRaw ==
    UnresolvableRead => last.exc = "" /\ last.ret = RawValue(obj, last.f)

-----------------------------------------------------------------------------
(* Claims about the bounds of a magnet *)

Ordered(b) == b.l[1].n < b.l[2].n

\* C9: for every constructed Helix, Bitter or Supra, r[0] < r[1] and
\* z[0] < z[1] hold in every reachable state, also after callers modify the
\* lists returned by to_dict or get_bounds.
\* Refuted: to_dict hands out self.r and self.z themselves, so a write to the
\* returned list changes the magnet without any validation.
C9_BoundsOrdered == obj # None => Ordered(obj.a.r) /\ Ordered(obj.a.z)

\* the last call was a constructor given r[0] >= r[1] or z[0] >= z[1]
BuiltWithBadBounds ==
    /\ last.op \in {"Helix", "Bitter", "Supra"}
    /\ ~(Ordered(last.args.l[2]) /\ Ordered(last.args.l[3]))

\* C10: constructing a Helix, Bitter or Supra with r[0] >= r[1] or
\* z[0] >= z[1] raises ValueError at construction time, before any reference
\* field is resolved and before any file is read.
C10_BadBoundsRaiseFirst ==
    BuiltWithBadBounds =>
        /\ last.exc = "ValueError"
        /\ obj = None
        /\ \A p \in Files : reads[p] = 0
        /\ \A f \in AllProps : resolves[f] = 0

\* a constructor was given a proper name and r[0] = r[1], and raised
C10_EqualBoundsRejected ==
    /\ BuiltWithBadBounds
    /\ last.args.l[1] = Str("x")
    /\ last.args.l[2] = Bounds(2, 2)
    /\ last.exc = "ValueError"

\* ---------------------------------------------------------------------------
\* Degenerate magnets (helix.py 82-143, 530-537; bitter.py 62-119, 588-596)
\* ---------------------------------------------------------------------------

\* The magnet satisfies the dimension rule of its class: a Helix has a
\* positive cut width, a Bitter has its inner bore below its outer bore.
WellDimensioned(o) ==
    /\ o.cls = "Helix" => NumVal(o.a.cutwidth) > 0
    /\ o.cls = "Bitter" => NumVal(o.a.innerbore) < NumVal(o.a.outerbore)

\* C11: no Helix with cutwidth <= 0 and no Bitter with innerbore >= outerbore
\* is ever returned by a constructor or by from_dict: the construction raises
\* ValueError instead.
C11_NoDegenerateMagnet ==
    /\ obj # None => WellDimensioned(obj)
    /\ (last.op = "roundtrip" /\ last.ret # None) => WellDimensioned(last.ret)


\* ---------------------------------------------------------------------------
\* Validation at the end of construction (support_base.py 16-25,
\* modelaxi.py 29-73, component_base.py 12-50)
\* ---------------------------------------------------------------------------

\* The last step was a constructor call that returned a magnet.
Constructed ==
    /\ last.op \in {"Helix", "Bitter", "Supra"}
    /\ last.exc = ""
    /\ obj # None

\* C12: validation runs at the end of the constructor, after every field is
\* assigned, so every object a constructor returns satisfies its own
\* validate().
C12_ConstructedSatisfiesValidate == Constructed => Validate(obj) = "ok"


\* ---------------------------------------------------------------------------
\* Decoding invalid data of a registered class (deserialize.py 106-165)
\* ---------------------------------------------------------------------------

\* The last decode dispatched to a registered class.
KnownClassDecoded == dec.d # None /\ dec.known

\* C13: when unserialize_object dispatches to a registered class, data that
\* violates the class's invariants raises to the caller: the call either
\* raises or returns an object of the class satisfying validate(), and the raw
\* mapping is never returned in the object's place.
C13_InvalidDataRaises ==
    KnownClassDecoded =>
        \/ dec.exc # ""
        \/ dec.ret.t = "obj" /\ Validate(dec.ret) = "ok"

\* C28: unserialize_object never modifies the mapping passed to it: after
\* the call, on every path, the mapping holds the keys and values it held
\* before, "__classname__" included.
C28_MappingUntouched == dec.d # None => dec.after = dec.d

\* The last registry operation removed, and returned True for, a name that
\* only register_class can have put into the registry; last.args is the
\* class that was registered under it.
UnregisteredAfterRegister ==
    /\ last.op = "unregister_class" /\ last.ret = Bool(TRUE)
    /\ last.f \notin DOMAIN Registry

\* C30: after register_class(cls) and an unregister_class(name) that
\* returned True, and until a class is registered again, no call of
\* unserialize_object returns an instance of that class, whatever the
\* discriminant (class name or yaml_tag alias).
C30_UnregisteredNotReconstructed ==
    [][(UnregisteredAfterRegister /\ dec' # dec)
          => ~IsInst(dec'.ret, last.args.s)]_vars


\* ---------------------------------------------------------------------------
\* Dimension synchronisation with an Insert handed in (supra.py 146-197)
\* ---------------------------------------------------------------------------

\* A synchronisation that would also write the Supra's count back.
check_dimensions_writes_back(o, magnet) ==
    IF ~Truthy(magnet) \/ ~Truthy(o.a.struct) THEN magnet
    ELSE [magnet EXCEPT !.a.n = o.a.n]

\* What check_dimensions leaves in the Insert it was given: the method only
\* calls the Insert's getters (structure.py 139-195), which assign nothing.
check_dimensions_magnet(o, magnet) == magnet

\* Inserts a caller hands to check_dimensions: one isolation between each two
\* neighbouring double pancakes.
SyncInserts ==
    {i \in Inserts :
        /\ i.a.n = Num(0)
        /\ Len(i.a.isolations.l) =
               IF i.a.dblpancakes.l = <<>> THEN 0
               ELSE Len(i.a.dblpancakes.l) - 1}

\* supra.check_dimensions(magnet) with an Insert of the caller's; the Insert
\* as the call leaves it is kept in held.
CheckDimensionsWith(magnet) ==
    /\ obj # None /\ obj.cls = "Supra"
    /\ obj' = Supra_check_dimensions(obj, magnet)
    /\ held' = [kind |-> "insert", v |-> check_dimensions_magnet(obj, magnet)]
    /\ last' = Call("check_dimensions", "", magnet, "", None)
    /\ UNCHANGED <<fs, reads, resolves, writes, classes, dec>>

NextSync ==
    \/ NewSupra
    \/ \E d \in DetailInputs : SetDetail(d)
    \/ \E magnet \in SyncInserts : CheckDimensionsWith(magnet)

SpecSync == InitNoFiles /\ [][NextSync]_vars

InsertResolvable ==
    /\ obj # None /\ obj.cls = "Supra"
    /\ obj.a.detail # Str("None")
    /\ obj.a.struct.t = "str" /\ obj.a.struct.s \in Files
    /\ fs[obj.a.struct.s] = MapFile(CfgDoc)
    /\ Resolved(obj, "magnet_struct") => Truthy(obj.a.magnet_struct)

\* The step is a call of get_names or get_Nturns.
QueryStep ==
    /\ last'.op \in {"get_names", "get_Nturns"}
    /\ fs' = fs

\* The stored r, z and n are the values derived from the resolved Insert.
InSync(o) ==
    /\ Resolved(o, "magnet_struct")
    /\ IsInst(o.a.magnet_struct, "HTSinsert")
    /\ o = Supra_check_dimensions(o, o.a.magnet_struct)

\* C15: when a Supra with a detail level other than "None" and a resolvable
\* Insert is queried through get_names or get_Nturns, the dimension
\* synchronisation runs as part of the query: afterwards the stored r, z and
\* n equal the values derived from the Insert.
C15_QuerySynchronises ==
    [][(InsertResolvable /\ QueryStep) => InSync(obj')]_vars


\* ---------------------------------------------------------------------------
\* Building Inserts (structure.py 65-136, 327-519; dblpancake.py 118-134)
\* ---------------------------------------------------------------------------

DblPancake_getZ1(d) == NumVal(d.a.z0) - Half(DblPancake_getH(d))

DblPancake_getZ2(d) == NumVal(d.a.z0) + Half(DblPancake_getH(d))

\* Configurations: n uniform double pancakes, two named double pancakes, and
\* one without a "dblpancakes" entry.
CfgUniform(n) == [CfgDoc EXCEPT !.dblpancakes = Dict([n |-> Num(n)])]

CfgVariable ==
    [CfgDoc EXCEPT !.dblpancakes = Dict([dp1 |-> Dict(<<>>),
                                         dp2 |-> Dict(<<>>)])]

CfgNoDblPancakes == [k \in DOMAIN CfgDoc \ {"dblpancakes"} |-> CfgDoc[k]]

ValidConfigs ==
    {CfgUniform(0), CfgUniform(1), CfgUniform(2), CfgVariable, CfgNoDblPancakes}

EmptyConfigs == {CfgUniform(0), CfgNoDblPancakes}

\* A configuration whose second double pancake has a malformed isolation.
CfgMalformed ==
    [CfgDoc EXCEPT !.dblpancakes =
        Dict([dp1 |-> Dict(<<>>),
              dp2 |-> Dict([isolation |->
                                Dict([r0 |-> Num(0 - 1), w |-> List(<<Num(1)>>),
                                      h |-> List(<<Num(2)>>)])])])]

CfgContents ==
    {NoFile, Garbage, MapFile(CfgMalformed)}
    \cup {MapFile(c) : c \in ValidConfigs}

InitCfg ==
    /\ obj = None
    /\ fs \in [Files -> CfgContents]
    /\ fs["x.yaml"] = NoFile
    /\ reads = [p \in Files |-> 0]
    /\ resolves = [f \in AllProps |-> 0]
    /\ held = NoHandle
    /\ writes = 0
    /\ last = NoCall
    /\ classes = Registry
    /\ dec = NoDecode

\* Well-formed Inserts whose fields are handed to the constructor.
BuildInserts == {x \in SyncInserts : x.a.h = Num(1)}

\* x with the isolation inside its first double pancake given a negative
\* radius, and x with its first isolation given a negative radius.
BadDblPancake(x) ==
    [x EXCEPT !.a.dblpancakes.l[1].a.isolation.a.r0 = Num(0 - 1)]

BadIsolation(x) == [x EXCEPT !.a.isolations.l[1].a.r0 = Num(0 - 1)]

\* Inserts one of whose sub-components is malformed.
MalformedInserts ==
    {BadDblPancake(x) : x \in {y \in BuildInserts : Len(y.a.dblpancakes.l) = 1}}
    \cup {BadIsolation(x) : x \in {y \in BuildInserts : y.a.isolations.l # <<>>
                                       /\ y.a.isolations.l[1].a.w.l = <<>>}}

\* The operation returns without changing the magnet or the registry.
Returned(op, f, args, res) ==
    /\ last' = Call(op, f, args, Exc(res), Value(res))
    /\ UNCHANGED <<obj, fs, resolves, held, writes, classes, dec>>

\* HTSinsert.fromcfg(p); the call records the configuration it was given
FromCfg(p) ==
    /\ reads[p] < MaxReads
    /\ reads' = AddReads(reads, Opens(fs, p))
    /\ Returned("fromcfg", p,
                IF fs[p].k = "map" THEN Dict(fs[p].m) ELSE None,
                HTSinsert_fromcfg(fs, p))

\* HTSinsert(name, z0, h, r0, r1, z1, n, dblpancakes, isolations) with the
\* fields of x
NewInsert(x) ==
    /\ reads' = reads
    /\ Returned("HTSinsert", "", x,
                HTSinsert__init__(x.a.name, x.a.z0, x.a.h, x.a.r0, x.a.r1,
                                  x.a.z1, x.a.n, x.a.dblpancakes,
                                  x.a.isolations))

\* HTSinsert.from_dict of the mapping that encodes x
InsertFromDict(x) ==
    /\ reads' = reads
    /\ Returned("from_dict", "HTSinsert", x,
                HTSinsert_from_dict(HTSinsert_to_dict(x).m))

NextCfg ==
    \/ \E q \in Files : FromCfg(q)
    \/ \E x \in BuildInserts \cup MalformedInserts : NewInsert(x)
    \/ \E x \in BuildInserts \cup MalformedInserts : InsertFromDict(x)
    \/ \E c \in CfgContents : FileChange("cfg", c)

SpecCfg == InitCfg /\ [][NextCfg]_vars

\* fromcfg was called on a valid configuration
FromCfgValid ==
    /\ last.op = "fromcfg"
    /\ last.args # None
    /\ last.args.m \in ValidConfigs

IsInsert(v) == IsInst(v, "HTSinsert")

Heights(l, getH(_)) == SumSeq([k \in 1..Len(l) |-> getH(l[k])])

\* C16: for every Insert that fromcfg builds from a valid configuration, the
\* heights of its double pancakes plus the heights of its isolations add up
\* to the Insert's height h.
C16_HeightsAddUp ==
    FromCfgValid =>
        /\ IsInsert(last.ret)
        /\ Heights(last.ret.a.dblpancakes.l, DblPancake_getH)
             + Heights(last.ret.a.isolations.l, Isolation_getH)
           = NumVal(last.ret.a.h)


\* C17: in every Insert that fromcfg builds from a valid configuration the
\* double pancakes have strictly increasing z-positions and do not overlap:
\* each one ends at or below the start of the next.
C17_IncreasingNoOverlap ==
    FromCfgValid =>
        /\ IsInsert(last.ret)
        /\ \A k \in 1..(Len(last.ret.a.dblpancakes.l) - 1) :
              LET d == last.ret.a.dblpancakes.l[k]
                  e == last.ret.a.dblpancakes.l[k + 1]
              IN  /\ NumVal(d.a.z0) < NumVal(e.a.z0)
                  /\ DblPancake_getZ2(d) <= DblPancake_getZ1(e)

\* An Insert was asked for with well-formed input: through the constructor,
\* through from_dict, or through fromcfg on a valid configuration.
InsertRequested ==
    \/ last.op = "HTSinsert" /\ last.args \in BuildInserts
    \/ last.op = "from_dict" /\ last.f = "HTSinsert"
                             /\ last.args \in BuildInserts
    \/ FromCfgValid

\* The double pancakes of x are stacked from z1 upwards: the first starts at
\* z1 and each next one starts where the previous one ends plus the height of
\* the isolation between them.
StackedFromZ1(x) ==
    \A k \in 1..Len(x.a.dblpancakes.l) :
        DblPancake_getZ1(x.a.dblpancakes.l[k]) =
            IF k = 1 THEN NumVal(x.a.z1)
            ELSE DblPancake_getZ2(x.a.dblpancakes.l[k - 1])
                 + (IF k - 1 <= Len(x.a.isolations.l)
                    THEN Isolation_getH(x.a.isolations.l[k - 1]) ELSE 0)

\* C18: in every constructed Insert, whether it comes from the constructor,
\* from_dict or fromcfg, the z-positions of the double pancakes are recomputed
\* from z1.
C18_PositionsFromZ1 ==
    InsertRequested => IsInsert(last.ret) /\ StackedFromZ1(last.ret)

\* C19: every constructed Insert with at least one double pancake has exactly
\* one isolation fewer than double pancakes.
C19_IsolationCount ==
    InsertRequested =>
        /\ IsInsert(last.ret)
        /\ last.ret.a.dblpancakes.l # <<>> =>
              Len(last.ret.a.isolations.l) = Len(last.ret.a.dblpancakes.l) - 1

\* C20: fromcfg on a configuration with n = 0 double pancakes, or with no
\* double pancake entry at all, returns a structure with no double pancake
\* and height zero.
C20_EmptyConfigEmptyInsert ==
    (last.op = "fromcfg" /\ last.args # None /\ last.args.m \in EmptyConfigs)
        => /\ IsInsert(last.ret)
           /\ last.ret.a.dblpancakes.l = <<>>
           /\ NumVal(last.ret.a.h) = 0


\* ---------------------------------------------------------------------------
\* Malformed sub-components of an Insert (structure.py 107-136, 327-519)
\* ---------------------------------------------------------------------------

\* An Insert was asked for with one malformed sub-component.
MalformedRequested ==
    \/ last.op \in {"HTSinsert", "from_dict"} /\ last.args \in MalformedInserts
    \/ last.op = "fromcfg" /\ last.args = Dict(CfgMalformed)

\* C21: when the data of one sub-component of an Insert is malformed,
\* building the Insert by fromcfg, from_dict or the constructor raises
\* ValueError, and no partially built structure is returned.
C21_MalformedRaisesValueError ==
    MalformedRequested => last.exc = "ValueError" /\ last.ret = None

\* fromcfg was called on a uniform configuration of at least one
\* double-pancake.
UniformRequested ==
    /\ last.op = "fromcfg" /\ last.args # None
    /\ \E n \in 1..2 : last.args.m = CfgUniform(n)

\* The height of the isolation a configuration entry describes.
CfgIsolationHeight(d) == SumSeq([k \in 1..Len(d.m.h.l) |-> d.m.h.l[k].n])

\* The isolation between double-pancakes: the one of the "dblpancakes"
\* entry when it has one, the base isolation otherwise.
CfgBetweenHeight(c) ==
    IF "isolation" \in DOMAIN c.dblpancakes.m
    THEN CfgIsolationHeight(c.dblpancakes.m.isolation)
    ELSE CfgIsolationHeight(c.isolation)

Abs(x) == IF x < 0 THEN 0 - x ELSE x

\* A tolerance is a fraction num/den; the default is 1.0e-6.
DefaultTol == [num |-> 1, den |-> 1000000]

\* abs(1 - item / x) <= tol, for x # 0
WithinTol(item, x, tol) == tol.den * Abs(x - item) <= tol.num * Abs(x)

\* indices(lst, item): the positions whose value matches item.  The
\* comprehension tests abs(1 - item / x) <= tol before x != 0.
indices(lst, item, tol) == {k \in 1..Len(lst) : WithinTol(item, lst[k], tol)}

ModelAxi_get_total_turns(turns) == SumSeq(turns)

\* the last index of the run of consecutive indices of D that starts at a
RECURSIVE RunEnd(_, _)
RunEnd(D, a) == IF a + 1 \in D THEN RunEnd(D, a + 1) ELSE a

\* "Group consecutive duplicates" for one pitch value: every run of
\* consecutive indices of D is stored under its first index, replacing what
\* was stored there.  si[a] is the last index of the group stored under a, or
\* 0 when none is.
GroupRuns(D, si) ==
    IF Cardinality(D) <= 1 THEN si
    ELSE [a \in DOMAIN si |->
             IF a \in D /\ (a - 1) \notin D THEN RunEnd(D, a) ELSE si[a]]

\* sum_index after the pitch values were visited in the given order
RECURSIVE SumIndex(_, _, _, _)
SumIndex(pitch, order, tol, si) ==
    IF order = <<>> THEN si
    ELSE SumIndex(pitch, Tail(order), tol,
                  GroupRuns(indices(pitch, Head(order), tol), si))

\* the entries of l whose index is not in remove_ids
RECURSIVE Keep(_, _, _)
Keep(l, remove_ids, k) ==
    IF k > Len(l) THEN <<>>
    ELSE (IF k \in remove_ids THEN <<>> ELSE <<l[k]>>)
         \o Keep(l, remove_ids, k + 1)

\* turns[a+1] + ... + turns[b]
RECURSIVE SumFrom(_, _, _)
SumFrom(turns, a, b) ==
    IF a >= b THEN 0 ELSE turns[a + 1] + SumFrom(turns, a + 1, b)

Compacted(turns, pitch, si) ==
    LET remove_ids == {k \in DOMAIN si : \E a \in DOMAIN si :
                                            si[a] # 0 /\ a < k /\ k <= si[a]}
        new_turns == [a \in DOMAIN si |->
                         IF si[a] = 0 THEN turns[a]
                         ELSE turns[a] + SumFrom(turns, a, si[a])]
    IN  <<Keep(new_turns, remove_ids, 1), Keep(pitch, remove_ids, 1)>>

\* compact(tol) on turns and pitch (sequences of numbers), the distinct
\* nonzero pitch values being visited in the given order: set(pitch_list)
\* has no specified iteration order.
ModelAxi_compact(turns, pitch, tol, order) ==
    IF turns = <<>> \/ pitch = <<>> THEN Ok(<<<<>>, <<>>>>)
    ELSE IF order # <<>> /\ \E k \in 1..Len(pitch) : pitch[k] = 0
         THEN Raise("ZeroDivisionError")
    ELSE Ok(Compacted(turns, pitch,
                      SumIndex(pitch, order, tol,
                               [a \in 1..Len(turns) |-> 0])))


\* Bounds of the sections handed to compact.
MaxSections == 3

PitchValues == {0, 2, 3, 4}

TurnsInputs == {<<1, 2, 4>>, <<2, 3, 4>>}

Tolerances == {DefaultTol, [num |-> 2, den |-> 5], [num |-> 1, den |-> 2]}

Nums(l) == List([k \in 1..Len(l) |-> Num(l[k])])

Ints(v) == [k \in 1..Len(v.l) |-> NumVal(v.l[k])]

\* Valid axisymmetric models of up to MaxSections sections.
CompactInputs ==
    ValidOnes(UNION {{Inst("ModelAxi",
                           [name |-> Str("ma"), h |-> Num(1),
                            turns |-> Nums(SubSeq(t, 1, n)),
                            pitch |-> Nums(p)]) :
                         t \in TurnsInputs, p \in [1..n -> PitchValues]} :
                     n \in 0..MaxSections})

\* The orders in which set(pitch_list) may yield the nonzero pitch values.
Orders(pitch) ==
    LET S == {pitch[k] : k \in 1..Len(pitch)} \ {0}
    IN  {o \in [1..Cardinality(S) -> S] :
            \A a, b \in 1..Cardinality(S) : a # b => o[a] # o[b]}

CompactResult(res) ==
    IF IsRaise(res) THEN res
    ELSE Ok(List(<<Nums(res.ok[1]), Nums(res.ok[2])>>))

\* x.compact(tol)
Compact(x, tol, order) ==
    /\ reads' = reads
    /\ Returned("compact", "ModelAxi", [t |-> "args", o |-> x, tol |-> tol],
                CompactResult(ModelAxi_compact(Ints(x.a.turns), Ints(x.a.pitch),
                                               tol, order)))

NextCompact ==
    \E x \in CompactInputs, tol \in Tolerances :
        \E order \in Orders(Ints(x.a.pitch)) : Compact(x, tol, order)

SpecCompact == InitNoFiles /\ [][NextCompact]_vars

\* Every maximal run of consecutive sections with the same pitch merged into
\* one section: <<turns, pitch>> with the run's turns summed.
RECURSIVE MergedRuns(_, _)
MergedRuns(turns, pitch) ==
    IF Len(pitch) <= 1 THEN <<turns, pitch>>
    ELSE LET rest == MergedRuns(Tail(turns), Tail(pitch))
         IN  IF pitch[1] = pitch[2]
             THEN <<<<turns[1] + rest[1][1]>> \o Tail(rest[1]), rest[2]>>
             ELSE <<<<turns[1]>> \o rest[1], <<pitch[1]>> \o rest[2]>>

CompactCalled == last.op = "compact"

Helix_get_type(model3d) ==
    IF IsInst(model3d, "Model3D")
    THEN (IF model3d.a.with_shapes.b /\ model3d.a.with_channels.b
          THEN "HR" ELSE "HL")
    ELSE "HL"

\* Helix.get_Nturns: the turns of the ModelAxi, 0 without one.
Helix_get_Nturns(modelaxi) ==
    IF IsInst(modelaxi, "ModelAxi")
    THEN ModelAxi_get_total_turns(Ints(modelaxi.a.turns))
    ELSE 0

\* int(round(n / d)) for n >= 0 and d > 0: halves go to the even neighbour.
PyRound(n, d) ==
    IF 2 * (n % d) < d THEN n \div d
    ELSE IF 2 * (n % d) > d THEN (n \div d) + 1
    ELSE IF (n \div d) % 2 = 0 THEN n \div d
    ELSE (n \div d) + 1

\* The angle the insulator count is computed with: the first angle of the
\* shape when there is a shape with angles, 360 otherwise.
InsulatorAngle(shape) ==
    IF IsInst(shape, "Shape") /\ HasAttr(shape, "angle")
       /\ Truthy(shape.a.angle)
    THEN NumVal(shape.a.angle.l[1])
    ELSE 360

\* Helix.insulators on the resolved model3d, shape and modelaxi. The module
\* imports names that utils.validation and utils.enums do not define, so
\* VALIDATION_AVAILABLE is False and the second implementation runs.
Helix_insulators(dble, model3d, shape, modelaxi) ==
    IF IsInst(model3d, "Model3D") /\ model3d.a.with_shapes.b
       /\ model3d.a.with_channels.b
    THEN <<"Kapton",
           IF InsulatorAngle(shape) > 0
           THEN Max2(1, PyRound(Helix_get_Nturns(modelaxi) * 360,
                                InsulatorAngle(shape)))
           ELSE 1>>
    ELSE <<"Glue", IF Truthy(dble) THEN 2 ELSE 1>>

AngleInputs == {0, 90, 240, 360}

InsulatorShapes ==
    {Inst("Shape", [name |-> Str("sh"), profile |-> Str("p"),
                    length |-> List(<<Num(0)>>),
                    angle |-> List(<<Num(a)>>),
                    onturns |-> List(<<Num(1)>>),
                    position |-> Str("ABOVE")]) : a \in AngleInputs}

InsulatorModelAxis == {x \in ModelAxis : x.a.h = Num(1)}

\* Helices built by the constructor from caller-supplied support objects.
InsulatorHelices ==
    {Value(Helix__init__(Str("H1"), Bounds(1, 2), Bounds(0, 1), Num(0),
                         Bool(FALSE), Bool(d), ma, m3, sh, None, None)) :
        d \in BOOLEAN, ma \in InsulatorModelAxis \cup {None},
        m3 \in {x \in Model3Ds : x.a.cad = Str("c")} \cup {None},
        sh \in InsulatorShapes \cup {None}}

InsulatorsResult(res) == List(<<Str(res[1]), Num(res[2])>>)

\* h.insulators(): reads (and caches) model3d, then shape and modelaxi for
\* an HR helix.
Insulators(h) ==
    /\ obj' = ReadProp(ReadProp(ReadProp(h, "model3d", fs).o,
                                "shape", fs).o, "modelaxi", fs).o
    /\ last' = Call("insulators", "Helix", h, "",
                    InsulatorsResult(
                        Helix_insulators(h.a.dble,
                                         ReadProp(h, "model3d", fs).v,
                                         ReadProp(h, "shape", fs).v,
                                         ReadProp(h, "modelaxi", fs).v)))
    /\ UNCHANGED <<fs, reads, resolves, held, writes, classes, dec>>

NextInsulators == \E h \in InsulatorHelices : Insulators(h)

SpecInsulators == InitNoFiles /\ [][NextInsulators]_vars

InsulatorsCalled == last.op = "insulators"

\* The count the shape of an HR helix calls for: the rounded number of
\* angular periods in all the turns, 1 without a shape or with angle 0.
ShapeCount(o) ==
    IF o.a._shape_data # None /\ InsulatorAngle(o.a._shape_data) # 0
    THEN PyRound(Helix_get_Nturns(o.a._modelaxi_data) * 360,
                 InsulatorAngle(o.a._shape_data))
    ELSE 1

NamePrefix(mname) == IF mname = "" THEN "" ELSE mname \o "_"

\* n_slits = len(self.coolingslits) if self.coolingslits else 0
NSlits(coolingslits) ==
    IF Truthy(coolingslits) THEN Len(coolingslits.l) ELSE 0

\* Bitter.get_channels: the inner bore, one channel per slit, the outer bore.
Bitter_get_channels(mname, coolingslits) ==
    <<NamePrefix(mname) \o "Slit" \o ToString(0)>>
    \o [i \in 1..NSlits(coolingslits) |->
           NamePrefix(mname) \o "Slit" \o ToString(i)]
    \o <<NamePrefix(mname) \o "Slit" \o ToString(NSlits(coolingslits) + 1)>>

\* for i in range(n_slits + 1): f"{prefix}B{section}_Slit{i}"
SectionNames(prefix, section, n_slits) ==
    [i \in 1..(n_slits + 1) |->
        prefix \o "B" \o section \o "_Slit" \o ToString(i - 1)]

\* A variant naming one solid per section and channel: n_slits + 2 names.
MainSectionNamesPerChannel(prefix, nsection, n_slits) ==
    [k \in 1..(nsection * (n_slits + 2)) |->
        prefix \o "B" \o ToString(((k - 1) \div (n_slits + 2)) + 1)
               \o "_Slit" \o ToString((k - 1) % (n_slits + 2))]

\* for j in range(nsection): for i in range(n_slits + 1): B{j+1}_Slit{i}
MainSectionNames(prefix, nsection, n_slits) ==
    [k \in 1..(nsection * (n_slits + 1)) |->
        prefix \o "B" \o ToString(((k - 1) \div (n_slits + 1)) + 1)
               \o "_Slit" \o ToString((k - 1) % (n_slits + 1))]

\* abs(x) >= tol with tol = 1.0e-10, on integer coordinates.
AboveTol(x) == Abs(x) >= 1

\* Bitter.get_names on the resolved modelaxi and coolingslits.
Bitter_get_names(z, mname, is2D, modelaxi, coolingslits) ==
    IF ~is2D
    THEN <<NamePrefix(mname) \o "B", NamePrefix(mname) \o "Kapton">>
    ELSE IF ~(IsInst(modelaxi, "ModelAxi") /\ HasAttr(modelaxi, "turns"))
    THEN SectionNames(NamePrefix(mname), "", NSlits(coolingslits))
    ELSE (IF z.l[1].n < -modelaxi.a.h.n /\ AboveTol(z.l[1].n + modelaxi.a.h.n)
          THEN SectionNames(NamePrefix(mname), ToString(0),
                            NSlits(coolingslits))
          ELSE <<>>)
         \o MainSectionNames(NamePrefix(mname), Len(modelaxi.a.turns.l),
                             NSlits(coolingslits))
         \o (IF z.l[2].n > modelaxi.a.h.n
                /\ AboveTol(z.l[2].n - modelaxi.a.h.n)
             THEN SectionNames(NamePrefix(mname),
                               ToString(Len(modelaxi.a.turns.l) + 1),
                               NSlits(coolingslits))
             ELSE <<>>)

BitterZInputs ==
    {Bounds(0 - 2, 2), Bounds(0 - 1, 1), Bounds(0 - 2, 1), Bounds(0 - 1, 2),
     Bounds(0, 1)}

SlitInputs ==
    {<<>>, <<CHOOSE s \in CoolingSlits : s.a.r = Num(1)>>,
     <<CHOOSE s \in CoolingSlits : s.a.r = Num(1),
       CHOOSE s \in CoolingSlits : s.a.r = Num(2)>>}

MnameInputs == {"", "M"}

\* Bitters built by the constructor from caller-supplied support objects.
NamedBitters ==
    {Value(Bitter__init__(Str("B1"), Bounds(1, 2), z, Bool(FALSE), ma,
                          List(slits), None, Num(1), Num(2))) :
        z \in BitterZInputs, ma \in ModelAxis \cup {None},
        slits \in SlitInputs}

StrList(names) == List([i \in 1..Len(names) |-> Str(names[i])])

\* b.get_channels(mname): reads (and caches) coolingslits.
GetChannels(b, mname) ==
    /\ obj' = ReadProp(b, "coolingslits", fs).o
    /\ last' = Call("get_channels", "Bitter",
                    [t |-> "args", o |-> b, mname |-> mname], "",
                    StrList(Bitter_get_channels(
                        mname, ReadProp(b, "coolingslits", fs).v)))
    /\ UNCHANGED <<fs, reads, resolves, held, writes, classes, dec>>

\* b.get_names(mname, is2D): reads coolingslits, and modelaxi in 2D mode.
BitterGetNames(b, mname, is2D) ==
    /\ obj' = IF is2D
              THEN ReadProp(ReadProp(b, "coolingslits", fs).o,
                            "modelaxi", fs).o
              ELSE ReadProp(b, "coolingslits", fs).o
    /\ last' = Call("get_names", "Bitter",
                    [t |-> "args", o |-> b, mname |-> mname, is2D |-> is2D],
                    "",
                    StrList(Bitter_get_names(
                        b.a.z, mname, is2D,
                        ReadProp(b, "modelaxi", fs).v,
                        ReadProp(b, "coolingslits", fs).v)))
    /\ UNCHANGED <<fs, reads, resolves, held, writes, classes, dec>>

NextBitterNames ==
    \E b \in NamedBitters, mname \in MnameInputs :
        \/ GetChannels(b, mname)
        \/ \E is2D \in BOOLEAN : BitterGetNames(b, mname, is2D)

SpecBitterNames == InitNoFiles /\ [][NextBitterNames]_vars

ChannelsCalled == last.op = "get_channels" /\ last.f = "Bitter"

Names2DCalled ==
    /\ last.op = "get_names" /\ last.f = "Bitter" /\ last.args.is2D
    /\ last.args.o.a._modelaxi_data # None

SlitCount(o) == Len(o.a._coolingslits_data.l)

\* The axial sections of a Bitter: the sections of its ModelAxi, numbered
\* from 1, after section 0 when z[0] lies below -h and before one more
\* section when z[1] lies above h.
AxialSections(o) ==
    (IF o.a.z.l[1].n < 0 - o.a._modelaxi_data.a.h.n THEN {0} ELSE {})
    \cup 1..Len(o.a._modelaxi_data.a.turns.l)
    \cup (IF o.a.z.l[2].n > o.a._modelaxi_data.a.h.n
          THEN {Len(o.a._modelaxi_data.a.turns.l) + 1} ELSE {})

NoDuplicates(l) == \A i, j \in 1..Len(l) : l[i] = l[j] => i = j

Elements(l) == {l[i] : i \in 1..Len(l)}

ChannelNames(args, last_channel) ==
    {Str(NamePrefix(args.mname) \o "Slit" \o ToString(i)) :
        i \in 0..last_channel}

SolidNames(args, last_channel) ==
    {Str(NamePrefix(args.mname) \o "B" \o ToString(j) \o "_Slit"
             \o ToString(i)) :
        j \in AxialSections(args.o), i \in 0..last_channel}

\* get_channels returns exactly the N+2 names Slit0..Slit{N+1}.
ChannelsAreBoresAndSlits ==
    ChannelsCalled =>
        /\ Len(last.ret.l) = SlitCount(last.args.o) + 2
        /\ Elements(last.ret.l)
             = ChannelNames(last.args, SlitCount(last.args.o) + 1)

\* get_names in 2D mode returns each name of SolidNames exactly once.
SolidNamesUpTo(last_channel) ==
    Names2DCalled =>
        /\ NoDuplicates(last.ret.l)
        /\ Elements(last.ret.l) = SolidNames(last.args, last_channel)

Isolation_is_empty(iso) ==
    \/ ~Truthy(iso.a.w)
    \/ \A k \in 1..Len(iso.a.w.l) : iso.a.w.l[k].n = 0
    \/ ~Truthy(iso.a.h)
    \/ \A k \in 1..Len(iso.a.h.l) : iso.a.h.l[k].n = 0

\* Isolation.get_names: one name per layer at detail "layer" when there are
\* several layers, the isolation's own name otherwise.
Isolation_get_names(iso, name, detail) ==
    IF detail = "layer" /\ Len(iso.a.w.l) > 1
    THEN [k \in 1..Len(iso.a.w.l) |-> name \o "_Layer" \o ToString(k - 1)]
    ELSE <<name>>

\* Pancake.get_names below detail "turn": the pancake's name, after the
\* mandrel's when there is one and the detail is not "pancake".
Pancake_get_names(p, name, detail) ==
    IF detail = "pancake" THEN <<name>>
    ELSE (IF p.a.mandrin.n < p.a.r0.n THEN <<name \o "_Mandrel">> ELSE <<>>)
         \o <<name>>

\* DblPancake.get_names: bottom pancake, inner isolation unless empty, top
\* pancake.
DblPancake_get_names(dp, name, detail) ==
    IF detail = "dblpancake" THEN <<name>>
    ELSE (IF Truthy(dp.a.pancake)
          THEN Pancake_get_names(dp.a.pancake, name \o "_p0", detail)
          ELSE <<>>)
         \o (IF Truthy(dp.a.isolation) /\ ~Isolation_is_empty(dp.a.isolation)
             THEN Isolation_get_names(dp.a.isolation, name \o "_isolation",
                                      detail)
             ELSE <<>>)
         \o (IF Truthy(dp.a.pancake)
             THEN Pancake_get_names(dp.a.pancake, name \o "_p1", detail)
             ELSE <<>>)

\* The names of double-pancake i (from 1) and of the isolation after it.
InsertNamesAt(x, prefix, detail, i) ==
    (IF Truthy(x.a.dblpancakes.l[i])
     THEN DblPancake_get_names(x.a.dblpancakes.l[i],
                               prefix \o "dp" \o ToString(i - 1), detail)
     ELSE <<>>)
    \o (IF i - 1 < Len(x.a.dblpancakes.l) - 1
           /\ i - 1 < Len(x.a.isolations.l)
           /\ Truthy(x.a.isolations.l[i])
           /\ ~Isolation_is_empty(x.a.isolations.l[i])
        THEN Isolation_get_names(x.a.isolations.l[i],
                                 prefix \o "iso" \o ToString(i - 1), detail)
        ELSE <<>>)

RECURSIVE InsertNamesFrom(_, _, _, _)
InsertNamesFrom(x, prefix, detail, i) ==
    IF i > Len(x.a.dblpancakes.l) THEN <<>>
    ELSE InsertNamesAt(x, prefix, detail, i)
         \o InsertNamesFrom(x, prefix, detail, i + 1)

HTSinsert_get_names(x, mname, detail) ==
    InsertNamesFrom(x, NamePrefix(mname), detail, 1)

LayerInputs ==
    {<<>>, <<Num(0)>>, <<Num(1)>>, <<Num(1), Num(0)>>, <<Num(1), Num(1)>>}

LayeredIsolations ==
    ValidOnes({Inst("Isolation", [name |-> Str(""), r0 |-> Num(1),
                                  w |-> List(w), h |-> List(h)]) :
                  w \in LayerInputs, h \in LayerInputs})

\* Inserts of one or two double-pancakes with at most one isolation.
NamedInserts ==
    {[x EXCEPT !.a.isolations = List(isos)] :
        x \in {y \in SyncInserts :
                  /\ y.a.h = Num(1) /\ y.a.dblpancakes.l # <<>>
                  /\ y.a.dblpancakes.l[1].a.z0 = Num(0)
                  /\ \A k \in 1..Len(y.a.dblpancakes.l) :
                         /\ y.a.dblpancakes.l[k].a.pancake.a.tape.a.w = Num(1)
                         /\ Truthy(y.a.dblpancakes.l[k].a.isolation.a.w)},
        isos \in {<<>>} \cup {<<i>> : i \in LayeredIsolations}}

DetailInputsInsert == {"dblpancake", "pancake", "layer"}

InsertGetNames(x, mname, detail) ==
    /\ reads' = reads
    /\ Returned("get_names", "HTSinsert",
                [t |-> "args", o |-> x, mname |-> mname, detail |-> detail],
                Ok(StrList(HTSinsert_get_names(x, mname, detail))))

NextInsertNames ==
    \E x \in NamedInserts, mname \in MnameInputs,
       detail \in DetailInputsInsert : InsertGetNames(x, mname, detail)

SpecInsertNames == InitNoFiles /\ [][NextInsertNames]_vars

\* get_names was called on an Insert that has an isolation between its
\* first two double-pancakes.
IsolationBetween ==
    /\ last.op = "get_names" /\ last.f = "HTSinsert"
    /\ Len(last.args.o.a.dblpancakes.l) > 1
    /\ Len(last.args.o.a.isolations.l) > 0

\* Every layer of the isolation has a nonzero width and a nonzero height,
\* and there is at least one layer.
EveryLayerNonzero(iso) ==
    /\ iso.a.w.l # <<>> /\ iso.a.h.l # <<>>
    /\ \A k \in 1..Len(iso.a.w.l) : iso.a.w.l[k].n # 0
    /\ \A k \in 1..Len(iso.a.h.l) : iso.a.h.l[k].n # 0

\* The names that stand for the first isolation of the Insert.
FirstIsolationNames(args) ==
    {Str(NamePrefix(args.mname) \o "iso0")}
    \cup {Str(NamePrefix(args.mname) \o "iso0_Layer" \o ToString(k)) :
             k \in 0..1}

ProbeTypes == {"voltage_taps", "temperature", "magnetic_field"}

\* Probe.validate. The checks that depend on the probe type read only keys
\* of `parameters`; they pass when it has none.
Probe_validate(o) ==
    LET b == SupportComponentBase_validate(o) IN
    IF b # "ok" THEN b
    ELSE IF Missing(o, {"probe_type", "position", "parameters",
                        "measurement_range", "accuracy"})
         THEN "AttributeError"
    ELSE LET c == First2(validate_string_not_empty(o.a.name),
                         validate_enum_value(o.a.probe_type, ProbeTypes)) IN
    IF c # "ok" THEN c
    ELSE IF o.a.position.t # "list" \/ Len(o.a.position.l) # 3
         THEN "ValueError"
    ELSE LET r == validate_non_negative(o.a.position.l[1]) IN
    IF r # "ok" THEN r
    ELSE IF ~(0 <= NumVal(o.a.position.l[3])
              /\ NumVal(o.a.position.l[3]) <= 360) THEN "ValueError"
    ELSE IF Len(o.a.measurement_range.l) # 2 THEN "ValueError"
    ELSE IF NumVal(o.a.measurement_range.l[1])
              >= NumVal(o.a.measurement_range.l[2]) THEN "ValueError"
    ELSE IF o.a.accuracy # None THEN validate_positive(o.a.accuracy)
    ELSE "ok"

\* Probe.set_position: the position is assigned, then the probe validated.
Probe_set_position(o, r, z, theta) ==
    [o EXCEPT !.a.position = List(<<r, z, theta>>)]

\* DblPancake.setPancake: the pancake is assigned, then validated if truthy.
DblPancake_setPancake(o, pancake) == [o EXCEPT !.a.pancake = pancake]

\* DblPancake.setIsolation: likewise.
DblPancake_setIsolation(o, isolation) == [o EXCEPT !.a.isolation = isolation]

Probes ==
    {p \in {Inst("Probe", [name |-> Str("p"), probe_type |-> Str(ty),
                           position |-> List(<<Num(1), Num(0), Num(th)>>),
                           parameters |-> Dict(<<>>), active |-> Bool(TRUE),
                           measurement_range |-> Bounds(0, 1),
                           accuracy |-> None]) :
               ty \in ProbeTypes, th \in {0, 90}} :
        Probe_validate(p) = "ok"}

\* A pancake whose mandrel lies outside its inner radius, and an isolation
\* with a negative width: values the setters must refuse.
BadPancake ==
    Inst("Pancake", [name |-> Str(""), r0 |-> Num(1), mandrin |-> Num(2),
                     tape |-> CHOOSE t \in SomeTapes : TRUE, n |-> Num(1)])

BadLayerIsolation ==
    Inst("Isolation", [name |-> Str(""), r0 |-> Num(1),
                       w |-> List(<<Num(0 - 1)>>), h |-> List(<<Num(1)>>)])

PancakeInputs == SomePancakes \cup {BadPancake, None}

IsolationInputs == SomeIsolations \cup {BadLayerIsolation, None}

PositionInputs == {0 - 1, 1, 2} \X {0 - 1, 0} \X {0, 90, 400}

\* The objects the caller holds: valid double-pancakes and probes.
InitSetters ==
    /\ obj \in SomeDblPancakes \cup Probes
    /\ fs = [p \in Files |-> IF p = "cfg" THEN Garbage ELSE NoFile]
    /\ reads = [p \in Files |-> 0]
    /\ resolves = [f \in AllProps |-> 0]
    /\ held = NoHandle
    /\ writes = 0
    /\ last = NoCall
    /\ classes = Registry
    /\ dec = NoDecode

\* A setter call: the object after it, and the exception of the validation
\* that follows the assignment.
SetterCall(op, v, after, validated) ==
    /\ obj' = after
    /\ last' = Call(op, obj.cls, [t |-> "args", o |-> obj, v |-> v],
                    IF validated = "ok" THEN "" ELSE validated, None)
    /\ UNCHANGED <<fs, reads, resolves, held, writes, classes, dec>>

SetPancake(p) ==
    /\ obj.cls = "DblPancake"
    /\ SetterCall("setPancake", p, DblPancake_setPancake(obj, p),
                  Member_validate(p, "Pancake", Pancake_validate(p)))

SetIsolation(i) ==
    /\ obj.cls = "DblPancake"
    /\ SetterCall("setIsolation", i, DblPancake_setIsolation(obj, i),
                  Member_validate(i, "Isolation", Isolation_validate(i)))

SetPosition(r, z, theta) ==
    /\ obj.cls = "Probe"
    /\ SetterCall("set_position", List(<<Num(r), Num(z), Num(theta)>>),
                  Probe_set_position(obj, Num(r), Num(z), Num(theta)),
                  Probe_validate(
                      Probe_set_position(obj, Num(r), Num(z), Num(theta))))

NextSetters ==
    \/ \E p \in PancakeInputs : SetPancake(p)
    \/ \E i \in IsolationInputs : SetIsolation(i)
    \/ \E pos \in PositionInputs : SetPosition(pos[1], pos[2], pos[3])

SpecSetters == InitSetters /\ [][NextSetters]_vars

SetterRaised ==
    /\ last.op \in {"setPancake", "setIsolation", "set_position"}
    /\ last.exc # ""

HeldValid(o) ==
    IF o.cls = "Probe" THEN Probe_validate(o) = "ok"
    ELSE DblPancake_validate(o) = "ok"

====
